---- MODULE Spec2Model ----
(***************************************************************************)
(* The workflow engine of src/agents/master_agent.py (MasterAgent) with    *)
(* its Session Data Cache, the checkpointed transcript of every thread,    *)
(* the two sub-agents it calls (src/agents/sql_agent.py,                   *)
(* src/agents/analysis_agent.py) and the memory extraction that follows an *)
(* answer.                                                                 *)
(*                                                                         *)
(* Text is modelled as a sequence of chunks: an f-string is the            *)
(* concatenation of its literal chunk and the chunks of the values it      *)
(* formats, `x in s` is containment of a contiguous run of chunks.         *)
(*                                                                         *)
(* Two specifications share Init:                                          *)
(*   Spec        the program as it stands.  _intent_node calls             *)
(*               get_master_intent_prompt with three positional arguments  *)
(*               (master_agent.py:241) while src/prompts.py:117 declares   *)
(*               two, so the call raises TypeError outside every try       *)
(*               block and the invocation ends there.                      *)
(*   EngineSpec  the node code behind that call (master_agent.py:243-515), *)
(*               entered at the classifier call of line 244.  It is the    *)
(*               specification of the claims that are conditioned on what  *)
(*               the classifier returned.                                  *)
(***************************************************************************)
EXTENDS Integers, Sequences, FiniteSets, TLC

VARIABLES
    pc,            \* per thread: position of the invocation in flight
    st,            \* per thread: MasterAgentState of the invocation in flight
    transcript,    \* per thread: the checkpointed `messages` channel
    session_data,  \* MasterAgent.session_data
    users,         \* long-term store: users rows
    prefs,         \* long-term store: user_preferences rows
    knowledge,     \* long-term store: user_knowledge rows, in insertion order
    ret,           \* per thread: what MasterAgent.query handed to its caller
    visited,       \* per thread: nodes entered by the invocation (history)
    calls,         \* per thread: collaborator calls of the invocation (history)
    turns,         \* invocations started so far
    now,           \* the clock CURRENT_TIMESTAMP reads, in seconds
    user_systems,  \* app.py: the module-level dict user_id -> MultiAgentSystem
    systems        \* the MultiAgentSystem objects constructed, in order

vars == <<pc, st, transcript, session_data, users, prefs, knowledge, ret,
          visited, calls, turns, now, user_systems, systems>>

----------------------------------------------------------------------------
(* Bounds *)

MaxTurns == 3

Threads == {"t1", "t2"}

Users == {"u1"}

----------------------------------------------------------------------------
(* Python values *)

\* None where a str is expected
None == <<"$None">>

\* None where a dict is expected
NoneDict == [none |-> TRUE]

\* bool(s) of an Optional[str]
Truthy(s) == s # None /\ s # <<>>

\* bool(d) of an Optional[dict]
TruthyDict(d) == d # NoneDict /\ DOMAIN d # {}

\* "k" in d
HasKey(d, k) == d # NoneDict /\ k \in DOMAIN d

\* d.get(k)
Get(d, k) == IF HasKey(d, k) THEN d[k] ELSE None

\* f"{prefix}{s}"
Fmt(prefix, s) == <<prefix>> \o s

\* sub in s
Contains(s, sub) ==
    \E i \in 0..(Len(s) - Len(sub)) : SubSeq(s, i + 1, i + Len(sub)) = sub

\* str(e) of the exception a failing collaborator raises
ExcText == <<"collaborator failed">>

----------------------------------------------------------------------------
(* Transcript: the `messages` channel and its add_messages reducer *)

HumanMessage(content) == [role |-> "user", content |-> content, id |-> 0]

AIMessage(content) == [role |-> "assistant", content |-> content, id |-> 0]

\* the messages channel without a reducer: an update replaces the list
RECURSIVE AddMessages_Overwrite(_, _)
AddMessages_Overwrite(left, right) ==
    IF right = <<>> THEN <<>>
    ELSE <<[Head(right) EXCEPT !.id = IF @ = 0 THEN 1 ELSE @]>>
         \o AddMessages_Overwrite(left, Tail(right))

\* add_messages gives a message without id a fresh one; the id of the
\* n-th message of a thread is n
RECURSIVE AddMessages(_, _)
AddMessages(left, right) ==
    IF right = <<>> THEN left
    ELSE LET m == Head(right)
             hit == {i \in 1..Len(left) : m.id # 0 /\ left[i].id = m.id}
             merged ==
                 IF hit # {}
                 THEN [i \in 1..Len(left) |-> IF i \in hit THEN m ELSE left[i]]
                 ELSE Append(left,
                             [m EXCEPT !.id = IF m.id = 0 THEN Len(left) + 1
                                               ELSE m.id])
         IN  AddMessages(merged, Tail(right))

----------------------------------------------------------------------------
(* Inputs of MasterAgent.query *)

\* the key "nihao" (U+4F60 U+597D) of common_responses
Greeting == "nihao"

\* a question with none of the canned keys in it
DataQuestion == "how many employees"

Questions == {<<Greeting>>, <<DataQuestion>>}

\* user_id: Optional[str]
UserIds == {<<u>> : u \in Users} \cup {None}

\* the state MasterAgent.query hands to graph.invoke
InitialState(question, user_id) ==
    [user_question   |-> question,
     intent          |-> None,
     sql_result      |-> NoneDict,
     analysis_result |-> NoneDict,
     final_answer    |-> None,
     error           |-> None,
     user_id         |-> user_id,
     intent_response |-> None]

\* no invocation in flight
NoState == [none |-> TRUE]

NoRet == [kind |-> "none", value |-> None]

\* WriteInput that leaves a channel alone when the input's value for it is
\* None
WriteInput_SkipNone(channels, input) ==
    IF channels = NoState THEN input
    ELSE [k \in DOMAIN input |->
             IF k \in {"sql_result", "analysis_result"}
             THEN IF input[k] = NoneDict THEN channels[k] ELSE input[k]
             ELSE IF input[k] = None THEN channels[k] ELSE input[k]]

\* the channels of a thread after graph.invoke has written its input to
\* them: the value of every key of the input, None included, replaces the
\* checkpointed one (an empty checkpoint is NoState)
WriteInput(channels, input) ==
    IF channels = NoState THEN input
    ELSE [k \in DOMAIN channels \cup DOMAIN input |->
             IF k \in DOMAIN input THEN input[k] ELSE channels[k]]

\* thread_id not in self.session_data
NotInCache == [in |-> FALSE, last_sql_result |-> NoneDict, has_last |-> FALSE]

----------------------------------------------------------------------------
(* Intent prompt *)

\* positional parameters get_master_intent_prompt declares
PromptParams == 2

\* positional arguments _intent_node passes to it
PromptArgs == 3

\* the call raises TypeError
PromptCallRaises == PromptArgs > PromptParams

----------------------------------------------------------------------------
(* Intent resolution, master_agent.py:244-259 *)

valid_intents == <<"simple_answer", "sql_only", "analysis_only",
                   "sql_and_analysis">>

\* chunks a classifier response is made of: the four values, two of them
\* in other letter case, white space and other text
RespChunks == {"simple_answer", "sql_only", "analysis_only",
               "sql_and_analysis", "SQL_AND_ANALYSIS", "Analysis_Only",
               " ", "x"}

MaxRespLen == 2

Responses == UNION {[1..n -> RespChunks] : n \in 0..MaxRespLen}

\* str.lower() of one chunk
LowerChunk(c) ==
    CASE c = "SQL_AND_ANALYSIS" -> "sql_and_analysis"
      [] c = "Analysis_Only"    -> "analysis_only"
      [] OTHER                  -> c

\* str.lower()
Lower(s) == [i \in 1..Len(s) |-> LowerChunk(s[i])]

\* str.strip()
RECURSIVE Strip(_)
Strip(s) ==
    IF s = <<>> THEN s
    ELSE IF Head(s) = " " THEN Strip(Tail(s))
    ELSE IF s[Len(s)] = " " THEN Strip(SubSeq(s, 1, Len(s) - 1))
    ELSE s

\* FirstContained with the default of the failure branch (simple_answer)
RECURSIVE FirstContained_DefaultSimple(_, _)
FirstContained_DefaultSimple(intent, i) ==
    IF i > Len(valid_intents) THEN <<"simple_answer">>
    ELSE IF Contains(intent, <<valid_intents[i]>>) THEN <<valid_intents[i]>>
    ELSE FirstContained_DefaultSimple(intent, i + 1)

\* the for/else loop over valid_intents, from index i on
RECURSIVE FirstContained(_, _)
FirstContained(intent, i) ==
    IF i > Len(valid_intents) THEN <<"sql_only">>
    ELSE IF Contains(intent, <<valid_intents[i]>>) THEN <<valid_intents[i]>>
    ELSE FirstContained(intent, i + 1)

\* ResolveIntent without the lower() of line 247
ResolveIntent_NoLower(response) ==
    LET intent == Strip(response)
    IN  IF \E i \in 1..Len(valid_intents) : intent = <<valid_intents[i]>>
        THEN intent
        ELSE FirstContained(intent, 1)

\* the intent _intent_node stores for a classifier response
ResolveIntent(response) ==
    LET intent == Strip(Lower(response))
    IN  IF \E i \in 1..Len(valid_intents) : intent = <<valid_intents[i]>>
        THEN intent
        ELSE FirstContained(intent, 1)

\* _route_after_intent and the conditional edges of _build_graph
RouteAfterIntent(state) ==
    LET intent == IF state.intent = None THEN <<"simple_answer">>
                  ELSE state.intent
    IN  CASE intent = <<"simple_answer">>    -> "simple_answer"
          [] intent = <<"sql_only">>         -> "call_sql"
          [] intent = <<"analysis_only">>    -> "call_analysis"
          [] intent = <<"sql_and_analysis">> -> "call_both"

----------------------------------------------------------------------------
(* Canned answers, master_agent.py:278-294 *)

\* keys of common_responses in insertion order: U+4F60 U+597D,
\* U+8C22 U+8C22, U+518D U+89C1, U+5E2E U+52A9
CommonKeys == <<Greeting, "xiexie", "zaijian", "bangzhu">>

CommonResponse(key) == <<"canned response to", key>>

DefaultResponse == <<"generic capability description">>

\* FirstKey with the last key of the table winning
RECURSIVE FirstKey_LastWins(_, _)
FirstKey_LastWins(question, i) ==
    IF i > Len(CommonKeys) THEN DefaultResponse
    ELSE LET rest == FirstKey_LastWins(question, i + 1)
         IN  IF rest # DefaultResponse THEN rest
             ELSE IF Contains(question, <<CommonKeys[i]>>)
                  THEN CommonResponse(CommonKeys[i])
             ELSE DefaultResponse

\* the for loop of lines 286-290 from the i-th key on, and the default of
\* lines 293-294
RECURSIVE FirstKey(_, _)
FirstKey(question, i) ==
    IF i > Len(CommonKeys) THEN DefaultResponse
    ELSE IF Contains(question, <<CommonKeys[i]>>)
         THEN CommonResponse(CommonKeys[i])
    ELSE FirstKey(question, i + 1)

\* SimpleAnswer without the table: the default reply for every question
SimpleAnswer_Generic(question) == DefaultResponse

\* answer of _simple_answer_node, lines 285-294
SimpleAnswer(question) == FirstKey(question, 1)

----------------------------------------------------------------------------
(* SQLQueryAgent.query, sql_agent.py:132-168 *)

\* texts the execute_sql tool hands back
RowsJson == <<"[{row}]">>
EmptyListJson == <<"[]">>
EmptyMessageJson == <<"{message: empty}">>
ErrorJson == <<"{error: SQL error}">>
NotJson == <<"not json">>
EmptyText == <<>>

ToolTexts == {RowsJson, EmptyListJson, ErrorJson}

\* json.loads: the kind of value parsed, "invalid" when it raises
JsonKind(text) ==
    CASE text \in {RowsJson, EmptyListJson} -> "list"
      [] text \in {EmptyMessageJson, ErrorJson} -> "dict"
      [] OTHER -> "invalid"

\* isinstance(parsed, dict) and "error" in parsed
JsonHasError(text) == text = ErrorJson

\* parsed["error"]
JsonError(text) == <<"SQL error">>

SqlText == <<"SELECT ...">>

\* outcomes of _generate_sql and of the tool call
GenOutcomes == {"raises", "sql"}

ToolOutcomes == ToolTexts

SqlAgentQuery(gen, tool) ==
    IF gen = "raises"
    THEN [sql |-> None, data |-> None,
          error |-> Fmt("query failed: ", ExcText)]
    ELSE IF gen = "empty"
    THEN [sql |-> <<>>, data |-> None,
          error |-> <<"no valid SQL generated">>]
    ELSE IF tool = <<"$raises">>
    THEN [sql |-> SqlText, data |-> None,
          error |-> Fmt("query failed: ", ExcText)]
    ELSE IF JsonKind(tool) = "invalid"
    THEN [sql |-> SqlText, data |-> tool,
          error |-> Fmt("query failed: ", <<"JSONDecodeError">>)]
    ELSE IF JsonHasError(tool)
    THEN [sql |-> SqlText, data |-> tool, error |-> JsonError(tool)]
    ELSE [sql |-> SqlText, data |-> tool, error |-> None]

SqlResults == {SqlAgentQuery(gen, tool) : gen \in GenOutcomes,
                                          tool \in ToolOutcomes}

----------------------------------------------------------------------------
(* DataAnalysisAgent.analyze, analysis_agent.py:77-122 *)

AnalysisText == <<"analysis text">>

\* outcomes of the analysis LLM call
LlmOutcomes == {"raises", "text"}

Analyze(data, llm) ==
    IF JsonKind(data) = "invalid"
    THEN [analysis |-> None, error |-> <<"cannot parse data">>]
    ELSE IF JsonKind(data) = "dict" /\ JsonHasError(data)
    THEN [analysis |-> None,
          error |-> Fmt("data contains error: ", JsonError(data))]
    ELSE IF llm = "raises"
    THEN [analysis |-> None, error |-> Fmt("analysis failed: ", ExcText)]
    ELSE [analysis |-> AnalysisText, error |-> None]

----------------------------------------------------------------------------
(* Short-term memory: _get_conversation_history and its helpers *)

\* "yonghu: " (U+7528 U+6237) and "zhushou: " (U+52A9 U+624B), the labels
\* of _format_messages, and the line separator of its join
UserLabel == "user: "

AssistantLabel == "assistant: "

Newline == "<nl>"

\* a question long enough for the token estimate to pass the budget
LongQuestion == "a long question"

\* len() of the text a chunk stands for
LongLen == 2600

ShortLen == 20

ChunkLen(chunk) ==
    IF chunk = LongQuestion THEN LongLen
    ELSE IF chunk = Newline THEN 1
    ELSE ShortLen

\* len(text)
RECURSIVE CharCount(_)
CharCount(text) ==
    IF text = <<>> THEN 0 ELSE ChunkLen(Head(text)) + CharCount(Tail(text))

\* self.short_term_max_tokens
short_term_max_tokens == 1000

\* len(messages) up to which the history is returned as formatted
DirectReturnMax == 11

\* lines kept when the compression fails
RecentLines == 20

\* "\n".join(lines)
RECURSIVE Join(_)
Join(lines) ==
    IF lines = <<>> THEN <<>>
    ELSE IF Len(lines) = 1 THEN lines[1]
    ELSE lines[1] \o <<Newline>> \o Join(Tail(lines))

\* text.split("\n"), the line being collected in `line`
RECURSIVE SplitFrom(_, _)
SplitFrom(text, line) ==
    IF text = <<>> THEN <<line>>
    ELSE IF Head(text) = Newline THEN <<line>> \o SplitFrom(Tail(text), <<>>)
    ELSE SplitFrom(Tail(text), Append(line, Head(text)))

Split(text) == SplitFrom(text, <<>>)

\* one entry of the list _format_messages builds
FormatLine(msg) ==
    IF msg.role = "user" THEN Fmt(UserLabel, msg.content)
    ELSE Fmt(AssistantLabel, msg.content)

\* _format_messages
FormatMessages(messages) ==
    Join([i \in 1..Len(messages) |-> FormatLine(messages[i])])

\* the text the summarizing collaborator returns, stripped
HistorySummary == <<"summary of the history">>

\* CompressHistoryWithLlm that falls back to the first lines
CompressHistoryWithLlm_Oldest(history_text, llm) ==
    IF llm = "text"
    THEN <<"[history summary]", Newline>> \o HistorySummary
    ELSE LET lines == Split(history_text)
             recent_lines ==
                 IF Len(lines) > RecentLines
                 THEN SubSeq(lines, 1, RecentLines)
                 ELSE lines
         IN  Join(recent_lines)

\* _compress_history_with_llm
CompressHistoryWithLlm(history_text, llm) ==
    IF llm = "text"
    THEN <<"[history summary]", Newline>> \o HistorySummary
    ELSE LET lines == Split(history_text)
             recent_lines ==
                 IF Len(lines) > RecentLines
                 THEN SubSeq(lines, Len(lines) - RecentLines + 1, Len(lines))
                 ELSE lines
         IN  Join(recent_lines)

\* estimated_tokens <= self.short_term_max_tokens, with
\* estimated_tokens = len(history_text) / 2.5
WithinBudget(history_text) ==
    2 * CharCount(history_text) <= 5 * short_term_max_tokens

\* NeedsCompression without the message-count test of line 133
NeedsCompression_BudgetOnly(messages) ==
    /\ Len(messages) > 1
    /\ ~WithinBudget(FormatMessages(SubSeq(messages, 1, Len(messages) - 1)))

\* _get_conversation_history reaches its last line
NeedsCompression(messages) ==
    /\ Len(messages) > DirectReturnMax
    /\ ~WithinBudget(FormatMessages(SubSeq(messages, 1, Len(messages) - 1)))

\* _get_conversation_history that formats messages instead of messages[:-1]
GetConversationHistory_WithCurrent(messages, llm) ==
    IF Len(messages) <= 1 THEN <<>>
    ELSE LET history_text == FormatMessages(messages)
         IN  IF Len(messages) <= DirectReturnMax THEN history_text
             ELSE IF WithinBudget(history_text) THEN history_text
             ELSE CompressHistoryWithLlm(history_text, llm)

\* _get_conversation_history
GetConversationHistory(messages, llm) ==
    IF Len(messages) <= 1 THEN <<>>
    ELSE LET history_text ==
                 FormatMessages(SubSeq(messages, 1, Len(messages) - 1))
         IN  IF Len(messages) <= DirectReturnMax THEN history_text
             ELSE IF WithinBudget(history_text) THEN history_text
             ELSE CompressHistoryWithLlm(history_text, llm)

\* the collaborator calls of _intent_node up to and including the
\* classifier call: the compression of the history when it is needed, then
\* the classifier with the history in its prompt
HistoryCalls(t, llm, classifies) ==
    LET messages == transcript[t]
        history_text == FormatMessages(SubSeq(messages, 1, Len(messages) - 1))
    IN  (IF NeedsCompression(messages)
         THEN <<[to |-> "compressor", arg |-> history_text]>>
         ELSE <<>>)
        \o (IF classifies
            THEN <<[to |-> "classifier",
                    arg |-> GetConversationHistory(messages, llm)]>>
            ELSE <<>>)

----------------------------------------------------------------------------

Init ==
    /\ pc = [t \in Threads |-> "idle"]
    /\ st = [t \in Threads |-> NoState]
    /\ transcript = [t \in Threads |-> <<>>]
    /\ session_data = [t \in Threads |-> NotInCache]
    /\ users = {}
    /\ prefs = {}
    /\ knowledge = <<>>
    /\ ret = [t \in Threads |-> NoRet]
    /\ visited = [t \in Threads |-> <<>>]
    /\ calls = [t \in Threads |-> <<>>]
    /\ turns = 0
    /\ now = 0
    /\ user_systems = <<>>
    /\ systems = <<>>

\* StartQuery with one checkpoint for all thread_ids (config ignored)
StartQuery_OneThread(t, questions, user_ids) ==
    /\ pc[t] = "idle"
    /\ turns < MaxTurns
    /\ \E question \in questions, user_id \in user_ids :
          /\ st' = [st EXCEPT ![t] =
                 WriteInput(@, InitialState(question, user_id))]
          /\ transcript' = [o \in Threads |->
                 AddMessages(transcript[t], <<HumanMessage(question)>>)]
    /\ pc' = [pc EXCEPT ![t] = "intent"]
    /\ ret' = [ret EXCEPT ![t] = NoRet]
    /\ visited' = [visited EXCEPT ![t] = <<>>]
    /\ calls' = [calls EXCEPT ![t] = <<>>]
    /\ turns' = turns + 1
    /\ UNCHANGED <<user_systems, systems>>
    /\ UNCHANGED <<session_data, users, prefs, knowledge, now>>

\* MasterAgent.query up to graph.invoke: the input is written to the
\* thread's channels and checkpointed before the first node runs
StartQuery(t, questions, user_ids) ==
    /\ pc[t] = "idle"
    /\ turns < MaxTurns
    /\ \E question \in questions, user_id \in user_ids :
          /\ st' = [st EXCEPT ![t] =
                 WriteInput(@, InitialState(question, user_id))]
          /\ transcript' = [transcript EXCEPT
                 ![t] = AddMessages(@, <<HumanMessage(question)>>)]
    /\ pc' = [pc EXCEPT ![t] = "intent"]
    /\ ret' = [ret EXCEPT ![t] = NoRet]
    /\ visited' = [visited EXCEPT ![t] = <<>>]
    /\ calls' = [calls EXCEPT ![t] = <<>>]
    /\ turns' = turns + 1
    /\ UNCHANGED <<user_systems, systems>>
    /\ UNCHANGED <<session_data, users, prefs, knowledge, now>>

\* _intent_node as it stands: the history and the long-term context are
\* read (both reads are guarded and change nothing), then the prompt call
\* raises and the exception leaves graph.invoke and MasterAgent.query
IntentNode(t) ==
    /\ pc[t] = "intent"
    /\ PromptCallRaises
    /\ visited' = [visited EXCEPT ![t] = Append(@, "intent")]
    /\ pc' = [pc EXCEPT ![t] = "raised"]
    /\ ret' = [ret EXCEPT ![t] = [kind |-> "exception", value |-> <<"TypeError">>]]
    /\ \E llm \in LlmOutcomes :
          calls' = [calls EXCEPT ![t] = @ \o HistoryCalls(t, llm, FALSE)]
    /\ UNCHANGED <<user_systems, systems>>
    /\ UNCHANGED <<st, transcript, session_data, users, prefs, knowledge,
                   turns, now>>

\* the caller has the answer (or the exception); the invocation's
\* MasterAgentState is discarded
Finish(t) ==
    /\ pc[t] \in {"returned", "raised"}
    /\ pc' = [pc EXCEPT ![t] = "idle"]
    /\ st' = [st EXCEPT ![t] = NoState]
    /\ ret' = [ret EXCEPT ![t] = NoRet]
    /\ visited' = [visited EXCEPT ![t] = <<>>]
    /\ calls' = [calls EXCEPT ![t] = <<>>]
    /\ UNCHANGED <<user_systems, systems>>
    /\ UNCHANGED <<transcript, session_data, users, prefs, knowledge, turns, now>>

\* the caller has the answer; the thread's checkpoint keeps the channel
\* values the invocation ended with
FinishCheckpointed(t) ==
    /\ pc[t] = "returned"
    /\ pc' = [pc EXCEPT ![t] = "idle"]
    /\ ret' = [ret EXCEPT ![t] = NoRet]
    /\ visited' = [visited EXCEPT ![t] = <<>>]
    /\ calls' = [calls EXCEPT ![t] = <<>>]
    /\ UNCHANGED <<user_systems, systems>>
    /\ UNCHANGED <<st, transcript, session_data, users, prefs, knowledge,
                   turns, now>>

----------------------------------------------------------------------------
(* The nodes behind the prompt call *)

\* classifier responses the engine specification draws from: each value,
\* and one text without any of them
EngineTexts == {<<"simple_answer">>, <<"sql_only">>, <<"analysis_only">>,
                <<"sql_and_analysis">>, <<"x">>}

Enter(t, node) == visited' = [visited EXCEPT ![t] = Append(@, node)]

\* collaborator call with the data handed over (None where the claims do not
\* look at it)
Call(t, collaborator, arg) ==
    calls' = [calls EXCEPT ![t] = Append(@, [to |-> collaborator, arg |-> arg])]

\* the collaborators called so far by the invocation on thread t
Called(t) == {calls[t][i].to : i \in 1..Len(calls[t])}

\* _intent_node from the classifier call on, the classifier returning text
IntentClassify(t, texts) ==
    /\ pc[t] = "intent"
    /\ \E raw \in texts :
          LET response == Strip(raw)
              state == [st[t] EXCEPT !.intent = ResolveIntent(response),
                                     !.intent_response = response]
          IN  /\ st' = [st EXCEPT ![t] = state]
              /\ pc' = [pc EXCEPT ![t] = RouteAfterIntent(state)]
    /\ Enter(t, "intent")
    /\ \E llm \in LlmOutcomes :
          calls' = [calls EXCEPT ![t] = @ \o HistoryCalls(t, llm, TRUE)]
    /\ UNCHANGED <<user_systems, systems>>
    /\ UNCHANGED <<transcript, session_data, users, prefs, knowledge, ret,
                   turns, now>>

\* IntentClassifyFails with the default of the for/else loop (sql_only)
IntentClassifyFails_ToSql(t) ==
    /\ pc[t] = "intent"
    /\ LET state == [st[t] EXCEPT
                        !.error = Fmt("intent recognition failed: ", ExcText),
                        !.intent = <<"sql_only">>]
       IN  /\ st' = [st EXCEPT ![t] = state]
           /\ pc' = [pc EXCEPT ![t] = RouteAfterIntent(state)]
    /\ Enter(t, "intent")
    /\ \E llm \in LlmOutcomes :
          calls' = [calls EXCEPT ![t] = @ \o HistoryCalls(t, llm, TRUE)]
    /\ UNCHANGED <<user_systems, systems>>
    /\ UNCHANGED <<transcript, session_data, users, prefs, knowledge, ret,
                   turns, now>>

\* _intent_node from the classifier call on, the classifier call raising
IntentClassifyFails(t) ==
    /\ pc[t] = "intent"
    /\ LET state == [st[t] EXCEPT
                        !.error = Fmt("intent recognition failed: ", ExcText),
                        !.intent = <<"simple_answer">>]
       IN  /\ st' = [st EXCEPT ![t] = state]
           /\ pc' = [pc EXCEPT ![t] = RouteAfterIntent(state)]
    /\ Enter(t, "intent")
    /\ \E llm \in LlmOutcomes :
          calls' = [calls EXCEPT ![t] = @ \o HistoryCalls(t, llm, TRUE)]
    /\ UNCHANGED <<user_systems, systems>>
    /\ UNCHANGED <<transcript, session_data, users, prefs, knowledge, ret,
                   turns, now>>

\* _simple_answer_node; the node's messages reach the checkpoint through
\* add_messages
SimpleAnswerNode(t) ==
    /\ pc[t] = "simple_answer"
    /\ LET answer == SimpleAnswer(st[t].user_question)
       IN  /\ st' = [st EXCEPT ![t].final_answer = answer]
           /\ transcript' = [transcript EXCEPT ![t] =
                  AddMessages(@, @ \o <<AIMessage(answer)>>)]
    /\ Enter(t, "simple_answer")
    /\ pc' = [pc EXCEPT ![t] = "graph_end"]
    /\ UNCHANGED <<user_systems, systems>>
    /\ UNCHANGED <<session_data, users, prefs, knowledge, ret, calls, turns, now>>

\* SqlAgentCall that calls the executor again when its result carries an
\* error
SqlAgentCall_Retry(t, node) ==
    /\ pc[t] = node
    /\ \E first \in SqlResults :
          IF Truthy(first.error)
          THEN /\ \E result \in SqlResults :
                     st' = [st EXCEPT ![t].sql_result = result]
               /\ calls' = [calls EXCEPT ![t] =
                      @ \o <<[to |-> "sql", arg |-> None],
                             [to |-> "sql", arg |-> None]>>]
          ELSE /\ st' = [st EXCEPT ![t].sql_result = first]
               /\ Call(t, "sql", None)
    /\ Enter(t, node)
    /\ pc' = [pc EXCEPT ![t] = node \o ":ensure"]
    /\ UNCHANGED <<user_systems, systems>>
    /\ UNCHANGED <<transcript, session_data, users, prefs, knowledge, ret,
                   turns, now>>

\* the call of self.sql_agent.query in node `node` (SQLQueryAgent.query
\* catches every Exception, so the node's own except branch is not taken)
SqlAgentCall(t, node) ==
    /\ pc[t] = node
    /\ \E result \in SqlResults :
          st' = [st EXCEPT ![t].sql_result = result]
    /\ Enter(t, node)
    /\ Call(t, "sql", None)
    /\ pc' = [pc EXCEPT ![t] = node \o ":ensure"]
    /\ UNCHANGED <<user_systems, systems>>
    /\ UNCHANGED <<transcript, session_data, users, prefs, knowledge, ret,
                   turns, now>>

\* if thread_id not in self.session_data: self.session_data[thread_id] = {}
CacheEnsure(t, node) ==
    /\ pc[t] = node \o ":ensure"
    /\ session_data' =
          IF session_data[t].in THEN session_data
          ELSE [session_data EXCEPT ![t] =
                   [in |-> TRUE, last_sql_result |-> NoneDict,
                    has_last |-> FALSE]]
    /\ pc' = [pc EXCEPT ![t] = node \o ":write"]
    /\ UNCHANGED <<user_systems, systems>>
    /\ UNCHANGED <<st, transcript, users, prefs, knowledge, ret, visited,
                   calls, turns, now>>

\* CacheStore that keeps the entry when the result carries an error
CacheStore_OnlySuccess(entry, result) ==
    IF Truthy(Get(result, "error")) THEN entry
    ELSE [entry EXCEPT !.last_sql_result = result, !.has_last = TRUE]

\* the cache entry after
\* self.session_data[thread_id]["last_sql_result"] = result
CacheStore(entry, result) ==
    [entry EXCEPT !.last_sql_result = result, !.has_last = TRUE]

\* CacheWrite that replaces the whole mapping by the one entry
CacheWrite_Rebuild(t, node, next) ==
    /\ pc[t] = node \o ":write"
    /\ session_data' = [o \in Threads |->
           IF o = t THEN CacheStore(session_data[t], st[t].sql_result)
           ELSE NotInCache]
    /\ pc' = [pc EXCEPT ![t] = next]
    /\ UNCHANGED <<user_systems, systems>>
    /\ UNCHANGED <<st, transcript, users, prefs, knowledge, ret, visited,
                   calls, turns, now>>

CacheWrite(t, node, next) ==
    /\ pc[t] = node \o ":write"
    /\ session_data' = [session_data EXCEPT
           ![t] = CacheStore(@, st[t].sql_result)]
    /\ pc' = [pc EXCEPT ![t] = next]
    /\ UNCHANGED <<user_systems, systems>>
    /\ UNCHANGED <<st, transcript, users, prefs, knowledge, ret, visited,
                   calls, turns, now>>

\* _call_sql_node
CallSqlNode(t) ==
    \/ SqlAgentCall(t, "call_sql")
    \/ CacheEnsure(t, "call_sql")
    \/ CacheWrite(t, "call_sql", "summarize")

\* the message of line 342
NoDataMessage == <<"no data to analyze, query first">>

\* the message of line 386
EmptyResultMessage == <<"empty result, cannot analyze">>

\* DataToAnalyze on a cache with one entry for all threads: the entry read
\* is the first one that holds a result, whichever thread wrote it
DataToAnalyze_SharedEntry(state, entry) ==
    LET shared == IF \E o \in Threads : session_data[o].has_last
                  THEN session_data[CHOOSE o \in Threads :
                                       session_data[o].has_last]
                  ELSE entry
    IN  IF TruthyDict(state.sql_result) /\ HasKey(state.sql_result, "data")
        THEN state.sql_result.data
        ELSE IF shared.in /\ shared.has_last
        THEN IF TruthyDict(shared.last_sql_result)
                /\ HasKey(shared.last_sql_result, "data")
             THEN shared.last_sql_result.data
             ELSE None
        ELSE None

\* data_to_analyze of _call_analysis_node
DataToAnalyze(state, entry) ==
    IF TruthyDict(state.sql_result) /\ HasKey(state.sql_result, "data")
    THEN state.sql_result.data
    ELSE IF entry.in /\ entry.has_last
    THEN IF TruthyDict(entry.last_sql_result)
            /\ HasKey(entry.last_sql_result, "data")
         THEN entry.last_sql_result.data
         ELSE None
    ELSE None

\* CallAnalysisNode without the short-circuit of lines 341-344
CallAnalysisNode_NoGuard(t) ==
    /\ pc[t] = "call_analysis"
    /\ LET data_to_analyze == DataToAnalyze(st[t], session_data[t])
       IN  /\ \E llm \in LlmOutcomes :
                 st' = [st EXCEPT ![t].analysis_result =
                           Analyze(data_to_analyze, llm)]
           /\ Call(t, "analysis", data_to_analyze)
    /\ Enter(t, "call_analysis")
    /\ pc' = [pc EXCEPT ![t] = "summarize"]
    /\ UNCHANGED <<user_systems, systems>>
    /\ UNCHANGED <<transcript, session_data, users, prefs, knowledge, ret,
                   turns, now>>

\* _call_analysis_node
CallAnalysisNode(t) ==
    /\ pc[t] = "call_analysis"
    /\ LET data_to_analyze == DataToAnalyze(st[t], session_data[t])
       IN  IF ~Truthy(data_to_analyze)
           THEN /\ st' = [st EXCEPT
                      ![t].error = NoDataMessage,
                      ![t].analysis_result = [error |-> <<"no data">>]]
                /\ UNCHANGED calls
           ELSE /\ \E llm \in LlmOutcomes :
                      st' = [st EXCEPT ![t].analysis_result =
                                Analyze(data_to_analyze, llm)]
                /\ Call(t, "analysis", data_to_analyze)
    /\ Enter(t, "call_analysis")
    /\ pc' = [pc EXCEPT ![t] = "summarize"]
    /\ UNCHANGED <<user_systems, systems>>
    /\ UNCHANGED <<transcript, session_data, users, prefs, knowledge, ret,
                   turns, now>>

\* CallBothSecondStep that drops the SQL result when the analysis fails
CallBothSecondStep_DropsSql(t) ==
    /\ pc[t] = "call_both:check"
    /\ LET sql_result == st[t].sql_result
       IN  IF Truthy(Get(sql_result, "error"))
           THEN /\ st' = [st EXCEPT ![t].error =
                             Fmt("SQL query failed: ", sql_result.error)]
                /\ UNCHANGED calls
           ELSE IF Truthy(Get(sql_result, "data"))
           THEN /\ \E llm \in LlmOutcomes :
                      LET analysis_result == Analyze(sql_result.data, llm)
                      IN  st' = [st EXCEPT
                              ![t].analysis_result = analysis_result,
                              ![t].sql_result =
                                  IF Truthy(Get(analysis_result, "error"))
                                  THEN NoneDict
                                  ELSE @,
                              ![t].error =
                                  IF Truthy(Get(analysis_result, "error"))
                                  THEN Fmt("analysis failed: ",
                                           analysis_result.error)
                                  ELSE @]
                /\ Call(t, "analysis", sql_result.data)
           ELSE /\ st' = [st EXCEPT ![t].error = EmptyResultMessage]
                /\ UNCHANGED calls
    /\ pc' = [pc EXCEPT ![t] = "summarize"]
    /\ UNCHANGED <<user_systems, systems>>
    /\ UNCHANGED <<transcript, session_data, users, prefs, knowledge, ret,
                   visited, turns, now>>

\* _call_both_node behind the cache write
CallBothSecondStep(t) ==
    /\ pc[t] = "call_both:check"
    /\ LET sql_result == st[t].sql_result
       IN  IF Truthy(Get(sql_result, "error"))
           THEN /\ st' = [st EXCEPT ![t].error =
                             Fmt("SQL query failed: ", sql_result.error)]
                /\ UNCHANGED calls
           ELSE IF Truthy(Get(sql_result, "data"))
           THEN /\ \E llm \in LlmOutcomes :
                      LET analysis_result == Analyze(sql_result.data, llm)
                      IN  st' = [st EXCEPT
                              ![t].analysis_result = analysis_result,
                              ![t].error =
                                  IF Truthy(Get(analysis_result, "error"))
                                  THEN Fmt("analysis failed: ",
                                           analysis_result.error)
                                  ELSE @]
                /\ Call(t, "analysis", sql_result.data)
           ELSE /\ st' = [st EXCEPT ![t].error = EmptyResultMessage]
                /\ UNCHANGED calls
    /\ pc' = [pc EXCEPT ![t] = "summarize"]
    /\ UNCHANGED <<user_systems, systems>>
    /\ UNCHANGED <<transcript, session_data, users, prefs, knowledge, ret,
                   visited, turns, now>>

\* _call_both_node
CallBothNode(t) ==
    \/ SqlAgentCall(t, "call_both")
    \/ CacheEnsure(t, "call_both")
    \/ CacheWrite(t, "call_both", "call_both:check")
    \/ CallBothSecondStep(t)

SummaryText == <<"summary">>

\* SummarizeNode that looks at the state's error field alone
SummarizeNode_StateErrorOnly(t) ==
    /\ pc[t] = "summarize"
    /\ LET state == st[t]
           sql_result == state.sql_result
           analysis_result == state.analysis_result
       IN  IF Truthy(state.error)
           THEN /\ st' = [st EXCEPT ![t].final_answer =
                             Fmt("sorry, an error occurred: ", state.error)]
                /\ UNCHANGED <<transcript, calls>>
           ELSE /\ \E llm \in LlmOutcomes :
                      IF llm = "raises"
                      THEN /\ st' = [st EXCEPT ![t].final_answer =
                                  Fmt("error generating the answer: ",
                                      ExcText)]
                           /\ UNCHANGED transcript
                      ELSE /\ st' = [st EXCEPT ![t].final_answer =
                                  SummaryText]
                           /\ transcript' = [transcript EXCEPT ![t] =
                                  AddMessages(@, @ \o <<AIMessage(SummaryText)>>)]
                /\ Call(t, "summarizer", None)
    /\ Enter(t, "summarize")
    /\ pc' = [pc EXCEPT ![t] = "graph_end"]
    /\ UNCHANGED <<user_systems, systems>>
    /\ UNCHANGED <<session_data, users, prefs, knowledge, ret, turns, now>>

\* _summarize_node
SummarizeNode(t) ==
    /\ pc[t] = "summarize"
    /\ LET state == st[t]
           sql_result == state.sql_result
           analysis_result == state.analysis_result
       IN  IF Truthy(state.error)
           THEN /\ st' = [st EXCEPT ![t].final_answer =
                             Fmt("sorry, an error occurred: ", state.error)]
                /\ UNCHANGED <<transcript, calls>>
           ELSE IF TruthyDict(sql_result) /\ Truthy(Get(sql_result, "error"))
           THEN /\ st' = [st EXCEPT ![t].final_answer =
                             Fmt("query error: ", sql_result.error)]
                /\ UNCHANGED <<transcript, calls>>
           ELSE IF TruthyDict(analysis_result)
                   /\ Truthy(Get(analysis_result, "error"))
           THEN /\ st' = [st EXCEPT ![t].final_answer =
                             Fmt("analysis error: ", analysis_result.error)]
                /\ UNCHANGED <<transcript, calls>>
           ELSE /\ \E llm \in LlmOutcomes :
                      IF llm = "raises"
                      THEN /\ st' = [st EXCEPT ![t].final_answer =
                                  Fmt("error generating the answer: ",
                                      ExcText)]
                           /\ UNCHANGED transcript
                      ELSE /\ st' = [st EXCEPT ![t].final_answer =
                                  SummaryText]
                           /\ transcript' = [transcript EXCEPT ![t] =
                                  AddMessages(@, @ \o <<AIMessage(SummaryText)>>)]
                /\ Call(t, "summarizer", None)
    /\ Enter(t, "summarize")
    /\ pc' = [pc EXCEPT ![t] = "graph_end"]
    /\ UNCHANGED <<user_systems, systems>>
    /\ UNCHANGED <<session_data, users, prefs, knowledge, ret, turns, now>>

----------------------------------------------------------------------------
(* Long-term store and memory extraction *)

\* should_extract threshold passed by _extract_and_save_memory
ExtractThreshold == 6

\* confidence in tenths; the default of knowledge.get("confidence", 0.8)
DefaultConfidence == 8

\* CreateOrUpdateUser as INSERT OR REPLACE: the row is written anew
CreateOrUpdateUser_Replace(us, user_id, ts, ok) ==
    IF ~ok THEN us
    ELSE {r \in us : r.user_id # user_id}
         \cup {[user_id |-> user_id, created_at |-> ts, last_active |-> ts]}

\* the users rows after create_or_update_user: INSERT ... ON
\* CONFLICT(user_id) DO UPDATE SET last_active; ok is FALSE when the
\* statement raises
CreateOrUpdateUser(us, user_id, ts, ok) ==
    IF ~ok THEN us
    ELSE IF \E r \in us : r.user_id = user_id
    THEN {IF r.user_id = user_id THEN [r EXCEPT !.last_active = ts] ELSE r :
             r \in us}
    ELSE us \cup {[user_id |-> user_id, created_at |-> ts,
                   last_active |-> ts]}

\* UpsertPreference as INSERT OR IGNORE: the first value stays
UpsertPreference_Ignore(ps, user_id, key, value) ==
    IF \E p \in ps : p.user_id = user_id /\ p.key = key THEN ps
    ELSE ps \cup {[user_id |-> user_id, key |-> key, value |-> value]}

\* the user_preferences rows after save_preference's upsert (updated_at,
\* which no operation reads, is left out)
UpsertPreference(ps, user_id, key, value) ==
    {p \in ps : ~(p.user_id = user_id /\ p.key = key)}
        \cup {[user_id |-> user_id, key |-> key, value |-> value]}

\* delete_preference
DeletePreference(ps, user_id, key) ==
    {p \in ps : ~(p.user_id = user_id /\ p.key = key)}

\* get_preference
GetPreference(ps, user_id, key, default) ==
    IF \E p \in ps : p.user_id = user_id /\ p.key = key
    THEN (CHOOSE p \in ps : p.user_id = user_id /\ p.key = key).value
    ELSE default

\* get_all_preferences: the dict {key: value} of the user's rows
GetAllPreferences(ps, user_id) ==
    {<<p.key, p.value>> : p \in {q \in ps : q.user_id = user_id}}

\* the place of a row that delete_knowledge removed: knowledge_id is
\* AUTOINCREMENT, the id of a deleted row is not given again
DeletedRow == [deleted |-> TRUE]

\* the user_knowledge rows after save_knowledge's INSERT; the row with
\* knowledge_id n is the n-th of the sequence
InsertKnowledge(ks, user_id, category, content, confidence, ts) ==
    Append(ks, [knowledge_id |-> Len(ks) + 1, user_id |-> user_id,
                category |-> category, content |-> content,
                confidence |-> confidence, created_at |-> ts])

\* delete_knowledge
DeleteKnowledge(ks, knowledge_id) ==
    [i \in 1..Len(ks) |-> IF i = knowledge_id THEN DeletedRow ELSE ks[i]]

\* the rows of user_knowledge
KnowledgeRows(ks) == {ks[i] : i \in 1..Len(ks)} \ {DeletedRow}

\* the letters LIKE folds (SQLite's LIKE ignores the case of ASCII letters)
FoldCase(ch) ==
    IF ch = "S" THEN "s"
    ELSE IF ch = "Q" THEN "q"
    ELSE IF ch = "L" THEN "l"
    ELSE IF ch = "H" THEN "h"
    ELSE IF ch = "R" THEN "r"
    ELSE ch

\* text LIKE pattern: % stands for any text, _ for any one character
RECURSIVE Like(_, _)
Like(pattern, text) ==
    IF pattern = <<>> THEN text = <<>>
    ELSE IF Head(pattern) = "%"
    THEN Like(Tail(pattern), text)
         \/ (text # <<>> /\ Like(pattern, Tail(text)))
    ELSE IF text = <<>> THEN FALSE
    ELSE /\ \/ Head(pattern) = "_"
            \/ FoldCase(Head(pattern)) = FoldCase(Head(text))
         /\ Like(Tail(pattern), Tail(text))

\* the orders in which ORDER BY may return the rows: <<a, b>> in before
\* says that the sort key puts a in front of b; rows with equal keys come
\* in any order
Orderings(rows, before) ==
    {o \in [1..Cardinality(rows) -> rows] :
        /\ \A i, j \in DOMAIN o : i # j => o[i] # o[j]
        /\ \A i, j \in DOMAIN o : i < j => <<o[j], o[i]>> \notin before}

\* LIMIT n (a negative n is no limit)
Limit(o, n) ==
    IF n < 0 \/ n >= Len(o) THEN o ELSE SubSeq(o, 1, n)

\* ORDER BY created_at DESC
ByRecency(rows) ==
    {p \in rows \X rows : p[1].created_at > p[2].created_at}

\* ORDER BY confidence DESC, created_at DESC
ByConfidenceThenRecency(rows) ==
    {p \in rows \X rows :
        \/ p[1].confidence > p[2].confidence
        \/ /\ p[1].confidence = p[2].confidence
           /\ p[1].created_at > p[2].created_at}

\* what get_all_knowledge may return
GetAllKnowledge(ks, user_id, limit) ==
    LET rows == {r \in KnowledgeRows(ks) : r.user_id = user_id}
    IN  {Limit(o, limit) : o \in Orderings(rows, ByRecency(rows))}

\* what get_relevant_knowledge may return
GetRelevantKnowledge(ks, user_id, query, top_k) ==
    LET rows == {r \in KnowledgeRows(ks) :
                    /\ r.user_id = user_id
                    /\ Like(<<"%">> \o query \o <<"%">>, r.content)}
    IN  {Limit(o, top_k) :
            o \in Orderings(rows, ByConfidenceThenRecency(rows))}

\* the code-fence marks: three backquotes followed by json, and three
\* backquotes
Fences == [json |-> "<fence json>", plain |-> "<fence>"]

\* texts the extraction collaborators return: JSON objects, arrays, a
\* string, a number, and an object and an array inside a code fence
ExtractorTexts ==
    [object |-> <<"{query_focus: salary}">>,
     empty_object |-> <<"{}">>,
     array |-> <<"[{category: habit, content: asks about salary}]">>,
     string_array |-> <<"[likes charts]">>,
     string |-> <<"'text'">>,
     number |-> <<"7">>,
     fenced_object |-> <<"sure:", Fences.json, " ", "{query_focus: salary}",
                         " ", Fences.plain>>,
     fenced_array |-> <<Fences.plain,
                        "[{category: habit, content: asks about salary}]",
                        Fences.plain>>]

\* the exception of a failing collaborator call
Raises == <<"$raises">>

ExtractorOutputs ==
    {Raises, NotJson, EmptyListJson, ExtractorTexts.object,
     ExtractorTexts.empty_object, ExtractorTexts.array,
     ExtractorTexts.string_array, ExtractorTexts.string,
     ExtractorTexts.number, ExtractorTexts.fenced_object,
     ExtractorTexts.fenced_array}

\* json.loads of the extraction outputs: the kind of the value and its
\* entries (the pairs of an object, the elements of an array)
JsonLoads(text) ==
    CASE text = ExtractorTexts.object ->
             [kind |-> "dict",
              items |-> <<[key |-> "query_focus", value |-> <<"salary">>]>>]
      [] text = ExtractorTexts.empty_object -> [kind |-> "dict", items |-> <<>>]
      [] text = ExtractorTexts.array ->
             [kind |-> "list",
              items |-> <<[kind |-> "dict", category |-> "habit",
                           content |-> <<"asks about salary">>]>>]
      [] text = ExtractorTexts.string_array ->
             [kind |-> "list", items |-> <<[kind |-> "str"]>>]
      [] text = EmptyListJson -> [kind |-> "list", items |-> <<>>]
      [] text = ExtractorTexts.string -> [kind |-> "str", items |-> <<>>]
      [] text = ExtractorTexts.number -> [kind |-> "int", items |-> <<>>]
      [] OTHER -> [kind |-> "invalid", items |-> <<>>]

\* text.split(mark)[1]: what follows the first mark
RECURSIVE AfterMark(_, _)
AfterMark(text, mark) ==
    IF text = <<>> THEN <<>>
    ELSE IF Head(text) = mark THEN Tail(text)
    ELSE AfterMark(Tail(text), mark)

\* text.split(mark)[0] for each of the marks: what precedes the first of
\* them
RECURSIVE BeforeMarks(_, _)
BeforeMarks(text, marks) ==
    IF text = <<>> THEN <<>>
    ELSE IF Head(text) \in marks THEN <<>>
    ELSE <<Head(text)>> \o BeforeMarks(Tail(text), marks)

\* the removal of code-block marks, memory_extractor.py:70-73 and 128-131
StripFence(response) ==
    IF \E i \in 1..Len(response) : response[i] = Fences.json
    THEN Strip(BeforeMarks(AfterMark(response, Fences.json),
                           {Fences.json, Fences.plain}))
    ELSE IF \E i \in 1..Len(response) : response[i] = Fences.plain
    THEN Strip(BeforeMarks(AfterMark(response, Fences.plain), {Fences.plain}))
    ELSE response

\* messages below which the extractors return at once
MinMessages == 4

\* extract_preferences_from_conversation on n messages, the collaborator
\* returning output
ExtractPreferences(n, output) ==
    IF n < MinMessages THEN [kind |-> "dict", items |-> <<>>]
    ELSE IF output = Raises THEN [kind |-> "dict", items |-> <<>>]
    ELSE LET preferences == JsonLoads(StripFence(Strip(output)))
         IN  IF preferences.kind = "invalid" THEN [kind |-> "dict", items |-> <<>>]
             ELSE preferences

\* ExtractKnowledge without the isinstance test of line 136
ExtractKnowledge_Unchecked(n, output) ==
    IF n < MinMessages THEN [kind |-> "list", items |-> <<>>]
    ELSE IF output = Raises THEN [kind |-> "list", items |-> <<>>]
    ELSE LET knowledge_list == JsonLoads(StripFence(Strip(output)))
         IN  IF knowledge_list.kind = "invalid" THEN [kind |-> "list", items |-> <<>>]
             ELSE knowledge_list

\* extract_knowledge_from_conversation on n messages, the collaborator
\* returning output
ExtractKnowledge(n, output) ==
    IF n < MinMessages THEN [kind |-> "list", items |-> <<>>]
    ELSE IF output = Raises THEN [kind |-> "list", items |-> <<>>]
    ELSE LET knowledge_list == JsonLoads(StripFence(Strip(output)))
         IN  IF knowledge_list.kind = "list" THEN knowledge_list
             ELSE [kind |-> "list", items |-> <<>>]

\* ExtractAndSaveMemory without the should_extract test of line 493
ExtractAndSaveMemory_NoGate(t, user_id) ==
    \E pout \in ExtractorOutputs, kout \in ExtractorOutputs,
       user_ok \in BOOLEAN, row_ok \in BOOLEAN :
        LET n == Len(transcript[t])
            preferences == ExtractPreferences(n, pout)
            knowledge_list == ExtractKnowledge(n, kout)
            reaches_knowledge == preferences.kind = "dict"
            saves_pref == reaches_knowledge /\ preferences.items # <<>>
            saves_know == /\ reaches_knowledge
                          /\ knowledge_list.items # <<>>
                          /\ knowledge_list.items[1].kind = "dict"
        IN  /\ users' = IF saves_pref \/ saves_know
                        THEN CreateOrUpdateUser(users, user_id, now, user_ok)
                        ELSE users
            /\ prefs' = IF saves_pref /\ row_ok
                        THEN UpsertPreference(prefs, user_id,
                                 preferences.items[1].key,
                                 preferences.items[1].value)
                        ELSE prefs
            /\ knowledge' = IF saves_know /\ row_ok
                            THEN InsertKnowledge(knowledge, user_id,
                                     knowledge_list.items[1].category,
                                     knowledge_list.items[1].content,
                                     DefaultConfidence, now)
                            ELSE knowledge
            /\ calls' = [calls EXCEPT ![t] =
                   @ \o (IF n >= MinMessages THEN <<[to |-> "preference_extractor", arg |-> None]>> ELSE <<>>)
                     \o (IF reaches_knowledge /\ n >= MinMessages
                         THEN <<[to |-> "knowledge_extractor", arg |-> None]>> ELSE <<>>)]

\* _extract_and_save_memory: the preferences are extracted and saved, then
\* the knowledge; an exception anywhere ends the whole in the except branch
\* of line 514 (preferences that are no dict have no items()). The outputs
\* drawn have at most one entry; user_ok and row_ok say whether the user
\* upsert and the row write of a save go through
ExtractAndSaveMemory(t, user_id) ==
    IF Len(transcript[t]) < ExtractThreshold
    THEN UNCHANGED <<users, prefs, knowledge, calls>>
    ELSE \E pout \in ExtractorOutputs, kout \in ExtractorOutputs,
            user_ok \in BOOLEAN, row_ok \in BOOLEAN :
            LET n == Len(transcript[t])
                preferences == ExtractPreferences(n, pout)
                knowledge_list == ExtractKnowledge(n, kout)
                reaches_knowledge == preferences.kind = "dict"
                saves_pref == reaches_knowledge /\ preferences.items # <<>>
                saves_know == /\ reaches_knowledge
                              /\ knowledge_list.items # <<>>
                              /\ knowledge_list.items[1].kind = "dict"
            IN  /\ users' = IF saves_pref \/ saves_know
                            THEN CreateOrUpdateUser(users, user_id, now, user_ok)
                            ELSE users
                /\ prefs' = IF saves_pref /\ row_ok
                            THEN UpsertPreference(prefs, user_id,
                                     preferences.items[1].key,
                                     preferences.items[1].value)
                            ELSE prefs
                /\ knowledge' = IF saves_know /\ row_ok
                                THEN InsertKnowledge(knowledge, user_id,
                                         knowledge_list.items[1].category,
                                         knowledge_list.items[1].content,
                                         DefaultConfidence, now)
                                ELSE knowledge
                /\ calls' = [calls EXCEPT ![t] =
                       @ \o <<[to |-> "preference_extractor", arg |-> None]>>
                         \o (IF reaches_knowledge THEN <<[to |-> "knowledge_extractor", arg |-> None]>>
                             ELSE <<>>)]

\* ExtractAndReturn that hands the caller the extraction's failure instead
\* of the answer once an extraction has been attempted
ExtractAndReturn_ExtractionError(t) ==
    /\ pc[t] = "graph_end"
    /\ IF Truthy(st[t].user_id)
       THEN ExtractAndSaveMemory(t, st[t].user_id)
       ELSE UNCHANGED <<users, prefs, knowledge, calls>>
    /\ ret' = [ret EXCEPT ![t] =
          [kind |-> "str",
           value |-> IF Truthy(st[t].user_id)
                        /\ Len(transcript[t]) >= ExtractThreshold
                     THEN Fmt("memory extraction failed: ", ExcText)
                     ELSE st[t].final_answer]]
    /\ pc' = [pc EXCEPT ![t] = "returned"]
    /\ UNCHANGED <<user_systems, systems>>
    /\ UNCHANGED <<st, transcript, session_data, visited, turns, now>>

\* MasterAgent.query behind graph.invoke
ExtractAndReturn(t) ==
    /\ pc[t] = "graph_end"
    /\ IF Truthy(st[t].user_id)
       THEN ExtractAndSaveMemory(t, st[t].user_id)
       ELSE UNCHANGED <<users, prefs, knowledge, calls>>
    /\ ret' = [ret EXCEPT ![t] = [kind |-> "str",
                                  value |-> st[t].final_answer]]
    /\ pc' = [pc EXCEPT ![t] = "returned"]
    /\ UNCHANGED <<user_systems, systems>>
    /\ UNCHANGED <<st, transcript, session_data, visited, turns, now>>

----------------------------------------------------------------------------
(* Calls of the long-term store, src/memory/long_term_memory.py; each     *)
(* statement with its commit is one step                                   *)

StoreUsers == {"u1", "u2"}

PrefKeys == {"k1"}

PrefValues == {<<"v1">>, <<"v2">>}

\* seconds the clock advances
MaxClock == 1

\* rows of user_knowledge
MaxRows == 2

\* the writes of the store, with their arguments; confidence in tenths
WriteCalls(contents, confidences) ==
    [op : {"create_or_update_user"}, user_id : StoreUsers]
    \cup [op : {"save_preference"}, user_id : StoreUsers, key : PrefKeys,
          value : PrefValues]
    \cup [op : {"save_knowledge"}, user_id : StoreUsers, category : {"cat"},
          content : contents, confidence : confidences]

\* the deletes of the store
DeleteCalls(max_rows) ==
    [op : {"delete_preference"}, user_id : StoreUsers, key : PrefKeys]
    \cup [op : {"delete_knowledge"}, knowledge_id : 1..max_rows]

\* save_knowledge calls that have not inserted their row yet
Inserting == {t \in Threads : st[t] # NoState /\ st[t].op = "save_knowledge"}

\* CURRENT_TIMESTAMP moves on
Tick ==
    /\ now < MaxClock
    /\ now' = now + 1
    /\ UNCHANGED <<user_systems, systems>>
    /\ UNCHANGED <<pc, st, transcript, session_data, users, prefs, knowledge,
                   ret, visited, calls, turns>>

\* a client calls the store: the connection is opened
StoreCall(t, store_calls, max_rows) ==
    /\ pc[t] = "idle"
    /\ \E c \in store_calls :
          /\ c.op = "save_knowledge" =>
                Len(knowledge) + Cardinality(Inserting) < max_rows
          /\ st' = [st EXCEPT ![t] = c]
          /\ pc' = [pc EXCEPT ![t] =
                 IF c.op \in {"save_preference", "save_knowledge"}
                 THEN "ensure_user" ELSE c.op]
    /\ UNCHANGED <<user_systems, systems>>
    /\ UNCHANGED <<transcript, session_data, users, prefs, knowledge, ret,
                   visited, calls, turns, now>>

\* a write has returned True; what the caller had passed is gone
StoreDone(t) ==
    /\ pc' = [pc EXCEPT ![t] = "idle"]
    /\ st' = [st EXCEPT ![t] = NoState]
    /\ UNCHANGED <<user_systems, systems>>
    /\ UNCHANGED <<transcript, session_data, ret, visited, calls, turns, now>>

\* a read has returned its rows
StoreReturn(t, value) ==
    /\ pc' = [pc EXCEPT ![t] = "returned"]
    /\ ret' = [ret EXCEPT ![t] = value]
    /\ UNCHANGED <<user_systems, systems>>
    /\ UNCHANGED <<st, transcript, session_data, visited, calls, turns, now>>

\* self.create_or_update_user(user_id) inside save_preference and
\* save_knowledge, on a connection of its own
EnsureUser(t) ==
    /\ pc[t] = "ensure_user"
    /\ users' = CreateOrUpdateUser(users, st[t].user_id, now, TRUE)
    /\ pc' = [pc EXCEPT ![t] = st[t].op]
    /\ UNCHANGED <<user_systems, systems>>
    /\ UNCHANGED <<st, transcript, session_data, prefs, knowledge, ret,
                   visited, calls, turns, now>>

\* create_or_update_user
CreateOrUpdateUserCall(t) ==
    /\ pc[t] = "create_or_update_user"
    /\ users' = CreateOrUpdateUser(users, st[t].user_id, now, TRUE)
    /\ StoreDone(t)
    /\ UNCHANGED <<user_systems, systems>>
    /\ UNCHANGED <<prefs, knowledge>>

\* SavePreference with a plain INSERT on a table without UNIQUE(user_id, key)
SavePreference_PlainInsert(t) ==
    /\ pc[t] = "save_preference"
    /\ prefs' = prefs \cup {[user_id |-> st[t].user_id, key |-> st[t].key,
                             value |-> st[t].value]}
    /\ StoreDone(t)
    /\ UNCHANGED <<user_systems, systems>>
    /\ UNCHANGED <<users, knowledge>>

\* save_preference behind its create_or_update_user
SavePreference(t) ==
    /\ pc[t] = "save_preference"
    /\ prefs' = UpsertPreference(prefs, st[t].user_id, st[t].key, st[t].value)
    /\ StoreDone(t)
    /\ UNCHANGED <<user_systems, systems>>
    /\ UNCHANGED <<users, knowledge>>

\* save_knowledge behind its create_or_update_user
SaveKnowledge(t) ==
    /\ pc[t] = "save_knowledge"
    /\ knowledge' = InsertKnowledge(knowledge, st[t].user_id, st[t].category,
                                    st[t].content, st[t].confidence, now)
    /\ StoreDone(t)
    /\ UNCHANGED <<user_systems, systems>>
    /\ UNCHANGED <<users, prefs>>

\* delete_preference
DeletePreferenceCall(t) ==
    /\ pc[t] = "delete_preference"
    /\ prefs' = DeletePreference(prefs, st[t].user_id, st[t].key)
    /\ StoreDone(t)
    /\ UNCHANGED <<user_systems, systems>>
    /\ UNCHANGED <<users, knowledge>>

\* delete_knowledge
DeleteKnowledgeCall(t) ==
    /\ pc[t] = "delete_knowledge"
    /\ knowledge' = DeleteKnowledge(knowledge, st[t].knowledge_id)
    /\ StoreDone(t)
    /\ UNCHANGED <<user_systems, systems>>
    /\ UNCHANGED <<users, prefs>>

\* get_all_knowledge
GetAllKnowledgeCall(t) ==
    /\ pc[t] = "get_all_knowledge"
    /\ \E rows \in GetAllKnowledge(knowledge, st[t].user_id, st[t].limit) :
          StoreReturn(t, [kind |-> "list", value |-> rows])
    /\ UNCHANGED <<user_systems, systems>>
    /\ UNCHANGED <<users, prefs, knowledge>>

\* get_relevant_knowledge
GetRelevantKnowledgeCall(t) ==
    /\ pc[t] = "get_relevant_knowledge"
    /\ \E rows \in GetRelevantKnowledge(knowledge, st[t].user_id,
                                        st[t].query, st[t].top_k) :
          StoreReturn(t, [kind |-> "list", value |-> rows])
    /\ UNCHANGED <<user_systems, systems>>
    /\ UNCHANGED <<users, prefs, knowledge>>

\* no invocation is in flight on any thread
AllIdle == \A t \in Threads : pc[t] = "idle"

Next ==
    \E t \in Threads :
        \/ StartQuery(t, Questions, UserIds)
        \/ IntentNode(t)
        \/ Finish(t)

Spec == Init /\ [][Next]_vars

\* sequential turns: one invocation at a time
EngineNext ==
    \E t \in Threads :
        \/ AllIdle /\ StartQuery(t, Questions, UserIds)
        \/ IntentClassify(t, EngineTexts)
        \/ IntentClassifyFails(t)
        \/ SimpleAnswerNode(t)
        \/ CallSqlNode(t)
        \/ CallAnalysisNode(t)
        \/ CallBothNode(t)
        \/ SummarizeNode(t)
        \/ ExtractAndReturn(t)
        \/ Finish(t)

EngineSpec == Init /\ [][EngineNext]_vars

\* the engine run on every classifier response of Responses
IntentNext ==
    \E t \in Threads :
        \/ AllIdle /\ StartQuery(t, {<<DataQuestion>>}, {None})
        \/ IntentClassify(t, Responses)
        \/ SimpleAnswerNode(t)
        \/ CallSqlNode(t)
        \/ CallAnalysisNode(t)
        \/ CallBothNode(t)
        \/ SummarizeNode(t)
        \/ ExtractAndReturn(t)
        \/ Finish(t)

IntentSpec == Init /\ [][IntentNext]_vars

\* classifier responses of the invocations that use the Session Data Cache
CacheTexts == {<<"sql_only">>, <<"analysis_only">>, <<"sql_and_analysis">>}

\* classifier responses that are the four values
ValidTexts == CacheTexts \cup {<<"simple_answer">>}

\* invocations on distinct threads running concurrently
ConcNext ==
    \E t \in Threads :
        \/ StartQuery(t, {<<DataQuestion>>}, {None})
        \/ IntentClassify(t, CacheTexts)
        \/ CallSqlNode(t)
        \/ CallAnalysisNode(t)
        \/ CallBothNode(t)
        \/ SummarizeNode(t)
        \/ ExtractAndReturn(t)
        \/ Finish(t)

ConcSpec == Init /\ [][ConcNext]_vars

\* classifier responses of the invocations of two threads of one user
ThreadTexts == {<<"sql_only">>, <<"analysis_only">>}

\* two threads of one user, their invocations interleaved
ThreadNext ==
    \E t \in Threads :
        \/ StartQuery(t, {<<DataQuestion>>}, {<<u>> : u \in Users})
        \/ IntentClassify(t, ThreadTexts)
        \/ CallSqlNode(t)
        \/ CallAnalysisNode(t)
        \/ SummarizeNode(t)
        \/ ExtractAndReturn(t)
        \/ Finish(t)

ThreadSpec == Init /\ [][ThreadNext]_vars

\* sequential turns with the channel values of a thread's last invocation
\* kept in its checkpoint between turns
CheckpointNext ==
    \E t \in Threads :
        \/ AllIdle /\ StartQuery(t, {<<DataQuestion>>}, {None})
        \/ IntentClassify(t, ValidTexts)
        \/ IntentClassifyFails(t)
        \/ SimpleAnswerNode(t)
        \/ CallSqlNode(t)
        \/ CallAnalysisNode(t)
        \/ CallBothNode(t)
        \/ SummarizeNode(t)
        \/ ExtractAndReturn(t)
        \/ FinishCheckpointed(t)

CheckpointSpec == Init /\ [][CheckpointNext]_vars

\* questions with one canned key, with two of them in either order, with a
\* key among other words, and with none
CannedQuestions ==
    {<<CommonKeys[i]>> : i \in 1..Len(CommonKeys)}
        \cup {<<"xiexie", Greeting>>, <<Greeting, "xiexie">>,
              <<"bangzhu", "zaijian">>, <<"please", "bangzhu", "me">>,
              <<DataQuestion>>}

\* sequential turns that end in simple_answer
CannedNext ==
    \E t \in Threads :
        \/ AllIdle /\ StartQuery(t, CannedQuestions, {None})
        \/ IntentClassify(t, {<<"simple_answer">>})
        \/ IntentClassifyFails(t)
        \/ SimpleAnswerNode(t)
        \/ ExtractAndReturn(t)
        \/ Finish(t)

CannedSpec == Init /\ [][CannedNext]_vars

\* a caller calls an extractor: on a conversation below MinMessages or on
\* one above it, the collaborator returning one of the outputs
ExtractorCall(t) ==
    /\ pc[t] = "idle"
    /\ \E op \in {"extract_preferences", "extract_knowledge"}, n \in {2, 6},
          output \in ExtractorOutputs :
          /\ st' = [st EXCEPT ![t] = [op |-> op, n |-> n, output |-> output]]
          /\ pc' = [pc EXCEPT ![t] = op]
    /\ UNCHANGED <<user_systems, systems>>
    /\ UNCHANGED <<transcript, session_data, users, prefs, knowledge, ret,
                   visited, calls, turns, now>>

\* extract_preferences_from_conversation returns
ExtractPreferencesCall(t) ==
    /\ pc[t] = "extract_preferences"
    /\ StoreReturn(t, ExtractPreferences(st[t].n, st[t].output))
    /\ UNCHANGED <<user_systems, systems>>
    /\ UNCHANGED <<users, prefs, knowledge>>

\* extract_knowledge_from_conversation returns
ExtractKnowledgeCall(t) ==
    /\ pc[t] = "extract_knowledge"
    /\ StoreReturn(t, ExtractKnowledge(st[t].n, st[t].output))
    /\ UNCHANGED <<user_systems, systems>>
    /\ UNCHANGED <<users, prefs, knowledge>>

\* the extractors called on their own
ExtractorNext ==
    \E t \in Threads :
        \/ ExtractorCall(t)
        \/ ExtractPreferencesCall(t)
        \/ ExtractKnowledgeCall(t)
        \/ Finish(t)

ExtractorSpec == Init /\ [][ExtractorNext]_vars

\* question and reply pairs of the transcript the history is read from
MaxRounds == 11

HistoryQuestions == {<<Greeting>>, <<LongQuestion>>}

\* the thread whose transcript has earlier turns in it
HistoryThread == "t1"

\* k turns answered by simple_answer
RECURSIVE Rounds(_, _)
Rounds(k, question) ==
    IF k = 0 THEN <<>>
    ELSE <<HumanMessage(question), AIMessage(SimpleAnswer(question))>>
         \o Rounds(k - 1, question)

\* the ids add_messages has given to the messages of a transcript
WithIds(messages) ==
    [i \in 1..Len(messages) |-> [messages[i] EXCEPT !.id = i]]

\* transcripts earlier turns leave behind: at most one turn that ended
\* without a reply, then turns with their replies
PriorTranscripts ==
    {WithIds(lead \o Rounds(k, question)) :
        k \in 0..MaxRounds,
        question \in HistoryQuestions,
        lead \in {<<>>, <<HumanMessage(<<DataQuestion>>)>>}}

\* the engine with earlier turns on one thread
HistoryInit ==
    /\ pc = [t \in Threads |-> "idle"]
    /\ st = [t \in Threads |-> NoState]
    /\ \E prior \in PriorTranscripts :
          transcript = [t \in Threads |->
                           IF t = HistoryThread THEN prior ELSE <<>>]
    /\ session_data = [t \in Threads |-> NotInCache]
    /\ users = {}
    /\ prefs = {}
    /\ knowledge = <<>>
    /\ ret = [t \in Threads |-> NoRet]
    /\ visited = [t \in Threads |-> <<>>]
    /\ calls = [t \in Threads |-> <<>>]
    /\ turns = 0
    /\ now = 0
    /\ user_systems = <<>>
    /\ systems = <<>>

HistoryNext ==
    \E t \in Threads :
        \/ AllIdle /\ StartQuery(t, HistoryQuestions, {None})
        \/ IntentClassify(t, {<<"simple_answer">>})
        \/ IntentClassifyFails(t)
        \/ SimpleAnswerNode(t)
        \/ ExtractAndReturn(t)
        \/ Finish(t)

HistorySpec == HistoryInit /\ [][HistoryNext]_vars

\* clients of the store writing to it concurrently
StoreNext ==
    \/ Tick
    \/ \E t \in Threads :
          \/ StoreCall(t, WriteCalls({<<"c">>}, {DefaultConfidence}), MaxRows)
          \/ EnsureUser(t)
          \/ CreateOrUpdateUserCall(t)
          \/ SavePreference(t)
          \/ SaveKnowledge(t)

StoreSpec == Init /\ [][StoreNext]_vars

\* rows of user_knowledge the queries are run on
MaxQueryRows == 3

\* contents and query texts, one character a chunk
QueryContents == {<<"S", "q">>, <<"h", "r">>}

QueryTexts == {<<"S", "q">>, <<"s", "q">>, <<"%">>, <<"_", "r">>}

\* confidence values, in tenths, save_knowledge is called with
QueryConfidences == {5, 7, 9, 15}

\* the save_knowledge calls of the query specification: one user with
\* items of every confidence, one item of another text and one item of
\* another user
KnowledgeCalls ==
    {c \in [op : {"save_knowledge"}, user_id : StoreUsers,
            category : {"cat"}, content : QueryContents,
            confidence : QueryConfidences] :
        \/ c.user_id = "u1" /\ c.content = <<"S", "q">>
        \/ c.confidence = 9 /\ (c.user_id = "u1" \/ c.content = <<"S", "q">>)}

\* the reads of the store, with their arguments
ReadCalls ==
    [op : {"get_all_knowledge"}, user_id : {"u1"}, limit : {2}]
    \cup [op : {"get_relevant_knowledge"}, user_id : {"u1"},
          query : QueryTexts, top_k : {1, 2}]

\* one client adding, deleting and querying knowledge
QueryNext ==
    \/ Tick
    \/ \E t \in Threads :
          \/ /\ AllIdle
             /\ StoreCall(t, KnowledgeCalls \cup ReadCalls
                             \cup DeleteCalls(MaxQueryRows), MaxQueryRows)
          \/ EnsureUser(t)
          \/ SaveKnowledge(t)
          \/ DeletePreferenceCall(t)
          \/ DeleteKnowledgeCall(t)
          \/ GetAllKnowledgeCall(t)
          \/ GetRelevantKnowledgeCall(t)
          \/ Finish(t)

QuerySpec == Init /\ [][QueryNext]_vars

----------------------------------------------------------------------------
(* Claims *)

\* an invocation on thread t has ended: its caller has an answer or an
\* exception
Ended(t) == pc[t] \in {"returned", "raised"}

\* the classifier of the invocation on thread t returned text
Classified(t) == st[t] # NoState /\ st[t].intent_response # None

ValidIntents == {<<valid_intents[i]>> : i \in 1..Len(valid_intents)}

\* the enumerated values found in a response, letter case ignored
FoundIn(response) ==
    {i \in 1..Len(valid_intents) :
        Contains(Strip(Lower(response)), <<valid_intents[i]>>)}

\* C1: whatever the question, thread_id, user_id and the collaborators do,
\* MasterAgent.query hands an answer string to its caller and no exception
\* escapes.
C1_QueryReturnsString ==
    \A t \in Threads :
        Ended(t) => /\ pc[t] = "returned"
                    /\ ret[t].kind = "str"
                    /\ ret[t].value # None

\* C2: every invocation enters intent first and once, then exactly the one
\* node its resolved intent selects, then summarize once iff that node is
\* not simple_answer, and then ends; no node is entered twice.
C2_NodePath ==
    \A t \in Threads :
        Ended(t) =>
            \/ st[t].intent = <<"simple_answer">>
               /\ visited[t] = <<"intent", "simple_answer">>
            \/ st[t].intent = <<"sql_only">>
               /\ visited[t] = <<"intent", "call_sql", "summarize">>
            \/ st[t].intent = <<"analysis_only">>
               /\ visited[t] = <<"intent", "call_analysis", "summarize">>
            \/ st[t].intent = <<"sql_and_analysis">>
               /\ visited[t] = <<"intent", "call_both", "summarize">>

\* C3: when the classifier returns text, the stored intent is one of the
\* four values: the lower-cased, trimmed response if that is one of them,
\* else the first value in enumeration order that the lower-cased response
\* contains, else sql_only; a response that contains exactly one value
\* resolves to it.
C3_IntentResolution ==
    \A t \in Threads :
        Classified(t) =>
            LET response == st[t].intent_response
                lowered == Strip(Lower(response))
                found == FoundIn(response)
            IN  /\ st[t].intent \in ValidIntents
                /\ lowered \in ValidIntents => st[t].intent = lowered
                /\ lowered \notin ValidIntents /\ found # {} =>
                      /\ st[t].intent[1] = valid_intents[
                            CHOOSE i \in found : \A j \in found : i <= j]
                /\ lowered \notin ValidIntents /\ found = {} =>
                      st[t].intent = <<"sql_only">>
                /\ \A i \in found :
                      found = {i} => st[t].intent = <<valid_intents[i]>>

\* a response in another letter case, with other text around exactly one
\* value, has been resolved
C3_Witness ==
    \E t \in Threads :
        /\ Classified(t)
        /\ st[t].intent_response = <<"x", "Analysis_Only">>
        /\ st[t].intent = <<"analysis_only">>

\* C4 as stated: a response with none of the four values in it gives the
\* intent simple_answer.
C4_UnrecognizedIsSimpleAnswer ==
    \A t \in Threads :
        Classified(t) /\ FoundIn(st[t].intent_response) = {} =>
            st[t].intent = <<"simple_answer">>

\* C4 amended: a response with none of the four values in it gives the
\* intent sql_only; the invocation goes through call_sql and summarize and
\* hands an answer string to its caller.
C4_UnrecognizedIsSqlOnly ==
    \A t \in Threads :
        Classified(t) /\ FoundIn(st[t].intent_response) = {} =>
            /\ st[t].intent = <<"sql_only">>
            /\ pc[t] # "raised"
            /\ pc[t] = "returned" =>
                  /\ ret[t].kind = "str"
                  /\ ret[t].value # None
                  /\ visited[t] = <<"intent", "call_sql", "summarize">>

\* an invocation whose classifier response had none of the values has
\* returned
C4_Witness ==
    \E t \in Threads :
        /\ Classified(t)
        /\ FoundIn(st[t].intent_response) = {}
        /\ st[t].intent_response # <<>>
        /\ pc[t] = "returned"

\* the classifier call of the invocation on thread t raised
ClassifierFailed(t) ==
    /\ st[t] # NoState
    /\ pc[t] # "intent"
    /\ st[t].intent_response = None

CannedAnswers ==
    {CommonResponse(CommonKeys[i]) : i \in 1..Len(CommonKeys)}
        \cup {DefaultResponse}

\* C5: when the classifier call fails, the intent is simple_answer, the
\* failure is recorded in the error field, the invocation is routed to
\* simple_answer and ends with that node's canned answer, and no SQL,
\* analysis or summarization call is made.
C5_ClassifierFailure ==
    \A t \in Threads :
        ClassifierFailed(t) =>
            /\ st[t].intent = <<"simple_answer">>
            /\ st[t].error = Fmt("intent recognition failed: ", ExcText)
            /\ pc[t] \in {"simple_answer", "graph_end", "returned"}
            /\ \A i \in 1..Len(visited[t]) :
                  visited[t][i] \in {"intent", "simple_answer"}
            /\ "classifier" \in Called(t)
            /\ Called(t) \cap {"sql", "analysis", "summarizer"} = {}
            /\ pc[t] = "returned" =>
                  /\ visited[t] = <<"intent", "simple_answer">>
                  /\ ret[t].kind = "str"
                  /\ ret[t].value = SimpleAnswer(st[t].user_question)
                  /\ ret[t].value \in CannedAnswers

\* an invocation whose classifier call failed has returned
C5_Witness ==
    \E t \in Threads : ClassifierFailed(t) /\ pc[t] = "returned"

\* C6: in a sql_and_analysis invocation whose SQL executor returned no
\* error and the payload "[]", the error is the empty-result message and
\* the analysis collaborator is not called.
C6_EmptyPayloadNotAnalyzed ==
    \A t \in Threads :
        /\ st[t] # NoState
        /\ st[t].intent = <<"sql_and_analysis">>
        /\ pc[t] \in {"summarize", "graph_end", "returned"}
        /\ st[t].sql_result = [sql |-> SqlText, data |-> EmptyListJson,
                               error |-> None]
        => /\ st[t].error = EmptyResultMessage
           /\ "analysis" \notin Called(t)

\* C7: an analysis_only invocation on a thread without a cached result
\* does not call the analysis collaborator, raises nothing and returns an
\* answer that contains the no-data message.
C7_NoDataIsAnswered ==
    \A t \in Threads :
        /\ st[t] # NoState
        /\ st[t].intent = <<"analysis_only">>
        /\ ~session_data[t].has_last
        => /\ "analysis" \notin Called(t)
           /\ pc[t] # "raised"
           /\ pc[t] = "returned" =>
                 /\ ret[t].kind = "str"
                 /\ Contains(ret[t].value, NoDataMessage)

\* an analysis_only invocation on a thread without a cached result has
\* returned
C7_Witness ==
    \E t \in Threads :
        /\ st[t] # NoState
        /\ st[t].intent = <<"analysis_only">>
        /\ ~session_data[t].has_last
        /\ pc[t] = "returned"

\* the invocation on thread t takes its cache write in this step
WritesCache(t) ==
    /\ pc[t] \in {"call_sql:write", "call_both:write"}
    /\ pc'[t] # pc[t]

\* the payload part of a cache entry
Payload(entry) == <<entry.has_last, entry.last_sql_result>>

\* C8 as stated: a query that succeeds overwrites the thread's entry, and
\* a query that ends with an error leaves the successful payload cached
\* before it in place.
C8_FailedQueryKeepsCache ==
    [][\A t \in Threads :
          WritesCache(t) =>
              IF ~Truthy(st[t].sql_result.error)
              THEN session_data'[t].last_sql_result = st[t].sql_result
              ELSE session_data[t].has_last
                   /\ ~Truthy(session_data[t].last_sql_result.error)
                   => Payload(session_data'[t]) = Payload(session_data[t])
      ]_vars

\* C8 amended: the entry of a thread is the result of the last SQL query
\* executed on that thread, with or without an error in it: every query
\* overwrites the entry with its result, and nothing else changes the
\* payload of the entry.
C8_CacheHoldsLastQueryResult ==
    [][\A t \in Threads :
          /\ WritesCache(t) =>
                /\ session_data'[t].has_last
                /\ session_data'[t].last_sql_result = st[t].sql_result
          /\ ~WritesCache(t) =>
                Payload(session_data'[t]) = Payload(session_data[t])
      ]_vars

\* a thread's cached successful result has been replaced by the result of a
\* later query that failed, and an analysis_only turn has then found it
C8_Witness ==
    \E t \in Threads :
        /\ session_data[t].has_last
        /\ Truthy(session_data[t].last_sql_result.error)
        /\ Len(transcript[t]) >= 4
        /\ transcript[t][2].role = "assistant"
        /\ st[t] # NoState
        /\ st[t].intent = <<"analysis_only">>
        /\ pc[t] = "returned"

\* C9: with invocations on distinct threads interleaved, the entry of a
\* thread changes only in a step of that thread's own invocation (a write
\* under another thread_id never changes or removes it), a write stores
\* the result it was given, and the read of call_analysis hands over the
\* data of the entry as last written.
C9_CacheKeysIndependent ==
    [][\A t \in Threads :
          /\ session_data'[t] # session_data[t] =>
                /\ pc[t] \in {"call_sql:ensure", "call_sql:write",
                              "call_both:ensure", "call_both:write"}
                /\ pc'[t] # pc[t]
          /\ WritesCache(t) =>
                /\ session_data'[t].has_last
                /\ session_data'[t].last_sql_result = st[t].sql_result
          /\ /\ pc[t] = "call_analysis"
             /\ pc'[t] = "summarize"
             /\ session_data[t].has_last
             /\ Truthy(session_data[t].last_sql_result.data)
             => /\ calls'[t] # calls[t]
                /\ calls'[t][Len(calls'[t])] =
                      [to |-> "analysis",
                       arg |-> session_data[t].last_sql_result.data]
      ]_vars

\* while another thread is about to write a different result under its
\* own key, an analysis_only invocation has read this thread's entry
C9_Witness ==
    \E t \in Threads, o \in Threads :
        /\ t # o
        /\ pc[o] \in {"call_sql:write", "call_both:write"}
        /\ session_data[t].has_last
        /\ st[o].sql_result # session_data[t].last_sql_result
        /\ pc[t] = "summarize"
        /\ st[t].intent = <<"analysis_only">>
        /\ "analysis" \in Called(t)

RECURSIVE FormattedInOrder(_)
FormattedInOrder(messages) ==
    IF messages = <<>> THEN <<>>
    ELSE LET m == Head(messages)
             line == <<IF m.role = "user" THEN UserLabel ELSE AssistantLabel>>
                     \o m.content
         IN  IF Len(messages) = 1 THEN line
             ELSE line \o <<Newline>> \o FormattedInOrder(Tail(messages))

\* the last collaborator call of the invocation on thread t
LastCall(cs) == cs[Len(cs)]

\* C11: a step of the invocation on thread A leaves the transcript and the
\* cache entry of every other thread B unchanged; the history its intent
\* node hands to the classifier is the one of A's transcript, and the data
\* its call_analysis node hands to the analysis is the one of A's entry
\* (both threads carrying the same user_id).
C11_ThreadsAreIsolated ==
    [][\A A \in Threads :
          pc'[A] # pc[A] =>
              /\ \A B \in Threads \ {A} :
                    /\ transcript'[B] = transcript[B]
                    /\ session_data'[B] = session_data[B]
              /\ pc[A] = "intent" =>
                    /\ calls'[A] # calls[A]
                    /\ LastCall(calls'[A]) =
                          [to |-> "classifier",
                           arg |-> FormattedInOrder(
                                SubSeq(transcript[A], 1,
                                       Len(transcript[A]) - 1))]
              /\ pc[A] = "call_analysis" /\ calls'[A] # calls[A] =>
                    LastCall(calls'[A]) =
                        [to |-> "analysis",
                         arg |-> session_data[A].last_sql_result.data]
      ]_vars

\* an analysis_only invocation of a user has read the cache entry of its
\* thread while another thread of the same user holds a different entry
\* and a transcript of its own
C11_Witness ==
    \E A \in Threads, B \in Threads :
        /\ A # B
        /\ pc[A] = "summarize"
        /\ st[A].intent = <<"analysis_only">>
        /\ st[A].user_id \in {<<u>> : u \in Users}
        /\ "analysis" \in Called(A)
        /\ session_data[A].has_last
        /\ session_data[B].has_last
        /\ session_data[B].last_sql_result.data
              # session_data[A].last_sql_result.data
        /\ Len(transcript[A]) = 3
        /\ Len(transcript[B]) \in 1..2

\* the transcript of thread t before the question of the invocation in
\* flight (the last user message)
PriorMessages(t) ==
    LET messages == transcript[t]
        current == CHOOSE i \in 1..Len(messages) :
                       /\ messages[i].role = "user"
                       /\ \A j \in (i + 1)..Len(messages) :
                             messages[j].role # "user"
    IN  SubSeq(messages, 1, current - 1)

\* the classifier call of the invocation on thread t
ClassifierCall(t) ==
    calls[t][CHOOSE i \in 1..Len(calls[t]) : calls[t][i].to = "classifier"]

\* C12: with at most 10 messages before the current question, the history
\* handed to the classifier is exactly those messages formatted one per
\* line in order, without the current question, whatever the summarizing
\* collaborator would do, and that collaborator is not called.
C12_ShortHistoryVerbatim ==
    \A t \in Threads :
        st[t] # NoState /\ "classifier" \in Called(t)
        /\ Len(PriorMessages(t)) <= 10 =>
            /\ "compressor" \notin Called(t)
            /\ ClassifierCall(t).arg = FormattedInOrder(PriorMessages(t))

\* ten earlier messages, long enough to exceed the budget, were handed
\* over as they are
C12_Witness ==
    \E t \in Threads :
        /\ st[t] # NoState
        /\ "classifier" \in Called(t)
        /\ Len(PriorMessages(t)) = 10
        /\ ~WithinBudget(ClassifierCall(t).arg)
        /\ "compressor" \notin Called(t)

\* the client on t completes this store call in this step
Completes(t, op) == pc[t] = op /\ pc'[t] # op

\* the user_preferences rows of (user_id, key)
PrefRows(ps, user_id, key) ==
    {p \in ps : p.user_id = user_id /\ p.key = key}

\* C13: when a save_preference(u, k, v) completes, get_preference(u, k)
\* returns v, get_all_preferences(u) has exactly one entry for k, and the
\* rows of every other (user, key) pair are as before; nothing but a
\* save_preference changes the preferences, so the stored value is the one
\* of the last call.
C13_LastWriteWins ==
    [][/\ \A t \in Threads :
             Completes(t, "save_preference") =>
                 LET u == st[t].user_id
                     k == st[t].key
                 IN  /\ GetPreference(prefs', u, k, None) = st[t].value
                     /\ Cardinality({e \in GetAllPreferences(prefs', u) :
                                        e[1] = k}) = 1
                     /\ \A o \in StoreUsers, j \in PrefKeys :
                           <<o, j>> # <<u, k>> =>
                               PrefRows(prefs', o, j) = PrefRows(prefs, o, j)
       /\ prefs' # prefs =>
             \E t \in Threads : Completes(t, "save_preference")
      ]_vars

\* a save_preference is about to replace the value of a pair by another
\* one while another user has a preference too
C13_Witness ==
    \E t \in Threads :
        /\ pc[t] = "save_preference"
        /\ \E p \in prefs :
              /\ p.user_id = st[t].user_id
              /\ p.key = st[t].key
              /\ p.value # st[t].value
        /\ \E p \in prefs : p.user_id # st[t].user_id

\* the users rows of user_id
UserRows(us, user_id) == {r \in us : r.user_id = user_id}

\* the client on t writes its users row in this step
WritesUser(t) ==
    \/ Completes(t, "create_or_update_user")
    \/ Completes(t, "ensure_user")

ReturnedIds(t) == {ret[t].value[i].knowledge_id : i \in 1..Len(ret[t].value)}

\* a read of this operation has returned to the client on t
Returned(t, op) == pc[t] = "returned" /\ st[t] # NoState /\ st[t].op = op

\* the two rows added last are rows of user_id that two save_knowledge
\* calls with the same arguments have added
TwinsAddedLast(ks, user_id) ==
    /\ Len(ks) >= 2
    /\ ks[Len(ks)] # DeletedRow
    /\ ks[Len(ks) - 1] # DeletedRow
    /\ ks[Len(ks)].user_id = user_id
    /\ ks[Len(ks) - 1].user_id = user_id
    /\ ks[Len(ks)].category = ks[Len(ks) - 1].category
    /\ ks[Len(ks)].content = ks[Len(ks) - 1].content
    /\ ks[Len(ks)].confidence = ks[Len(ks) - 1].confidence

\* C15: after save_knowledge was called twice with the same arguments,
\* the two rows have different ids and get_all_knowledge(u, limit) with a
\* limit of at least 2 returns both of them.
C15_TwinsBothListed ==
    \A t \in Threads :
        Returned(t, "get_all_knowledge") /\ st[t].limit >= 2
        /\ TwinsAddedLast(knowledge, st[t].user_id) =>
            /\ knowledge[Len(knowledge)].knowledge_id
                  # knowledge[Len(knowledge) - 1].knowledge_id
            /\ {Len(knowledge) - 1, Len(knowledge)} \subseteq ReturnedIds(t)

\* C16: no step changes or removes a knowledge row: every row of before
\* is there afterwards with the same category, content and confidence.
C16_KnowledgeOnlyGrows ==
    [][\A i \in 1..Len(knowledge) :
          knowledge[i] # DeletedRow =>
              /\ i <= Len(knowledge')
              /\ knowledge'[i] = knowledge[i]
      ]_vars

\* C17: every knowledge row has a confidence between 0 and 1 (0 and 10
\* tenths).
C17_ConfidenceInRange ==
    \A r \in KnowledgeRows(knowledge) : r.confidence \in 0..10

\* the rows get_relevant_knowledge selects for the read that returned to t
Selected(t) ==
    {r \in KnowledgeRows(knowledge) :
        /\ r.user_id = st[t].user_id
        /\ Like(<<"%">> \o st[t].query \o <<"%">>, r.content)}

\* row a is to be returned in front of row b: higher confidence, or the
\* same confidence and added later
Ahead(a, b) ==
    \/ a.confidence > b.confidence
    \/ a.confidence = b.confidence /\ a.knowledge_id > b.knowledge_id

\* C18: get_relevant_knowledge returns at most top_k rows, all of them
\* rows of the user, ordered by confidence descending and among equal
\* confidences the later-added first, and they are the first top_k of the
\* selected rows in that order.
C18_TopKByConfidenceThenRecency ==
    \A t \in Threads :
        Returned(t, "get_relevant_knowledge") =>
            LET rows == ret[t].value
            IN  /\ Len(rows) <= st[t].top_k
                /\ \A i \in 1..Len(rows) : rows[i].user_id = st[t].user_id
                /\ \A i, j \in 1..Len(rows) :
                      i < j => Ahead(rows[i], rows[j])
                /\ \A r \in Selected(t) :
                      r.knowledge_id \notin ReturnedIds(t) =>
                          /\ Len(rows) = st[t].top_k
                          /\ \A i \in 1..Len(rows) : Ahead(rows[i], r)

\* C19: get_relevant_knowledge returns a row only if its content contains
\* the query text as it is, letter case included, and leaves out such a
\* row of the user only when top_k rows are returned.
C19_LiteralSubstringMatch ==
    \A t \in Threads :
        Returned(t, "get_relevant_knowledge") =>
            /\ \A i \in 1..Len(ret[t].value) :
                  Contains(ret[t].value[i].content, st[t].query)
            /\ Len(ret[t].value) < st[t].top_k =>
                  \A r \in KnowledgeRows(knowledge) :
                      r.user_id = st[t].user_id
                      /\ Contains(r.content, st[t].query)
                      => r.knowledge_id \in ReturnedIds(t)

\* C20: a create_or_update_user(user_id), called directly or inside
\* save_preference and save_knowledge, leaves exactly one users row for
\* user_id: a new row created and last active now, or the row of before
\* with its created_at and with last_active set to now; the rows of other
\* users, the preferences and the knowledge are as before.
C20_UpsertUserIsIdempotent ==
    [][\A t \in Threads :
          WritesUser(t) =>
              LET u == st[t].user_id
                  before == UserRows(users, u)
                  after == UserRows(users', u)
              IN  /\ Cardinality(after) = 1
                  /\ \A q \in after :
                        /\ q.last_active = now
                        /\ IF before = {} THEN q.created_at = now
                           ELSE \A r \in before : q.created_at = r.created_at
                  /\ \A o \in StoreUsers \ {u} :
                        UserRows(users', o) = UserRows(users, o)
                  /\ prefs' = prefs
                  /\ knowledge' = knowledge
      ]_vars

\* a user created in one second was upserted again in a later one and has
\* a preference and a knowledge row
C20_Witness ==
    \E r \in users :
        /\ r.created_at < r.last_active
        /\ \E p \in prefs : p.user_id = r.user_id
        /\ \E k \in KnowledgeRows(knowledge) : k.user_id = r.user_id

\* the invocation on thread t takes the step from the end of the graph to
\* its return
Returns(t) == pc[t] = "graph_end" /\ pc'[t] = "returned"

\* the invocation on thread t attempts a memory extraction behind the graph
Extracts(t) ==
    /\ st[t] # NoState
    /\ Truthy(st[t].user_id)
    /\ Len(transcript[t]) >= ExtractThreshold

\* C21: what memory extraction does (nothing to save, malformed output, a
\* store write that fails, rows saved) never changes the answer of the
\* invocation that triggered it: query returns the final answer of the
\* graph as a string in every case, and the step changes neither the
\* answer nor the transcript nor the cache.
C21_ExtractionNeverChangesAnswer ==
    [][\A t \in Threads :
          Returns(t) =>
              /\ ret'[t] = [kind |-> "str", value |-> st[t].final_answer]
              /\ st'[t] = st[t]
              /\ transcript' = transcript
              /\ session_data' = session_data
      ]_vars

\* an invocation has returned its answer after an extraction whose user
\* upsert went through and whose row write failed
C21_Witness ==
    \E t \in Threads :
        /\ pc[t] = "returned"
        /\ Extracts(t)
        /\ users # {}
        /\ prefs = {}
        /\ knowledge = <<>>
        /\ ret[t].value = st[t].final_answer

\* the invocation on thread t asked the greeting on an empty transcript and
\* has returned
GreetingReturned(t) ==
    /\ pc[t] = "returned"
    /\ st[t].user_question = <<Greeting>>
    /\ PriorMessages(t) = <<>>

\* C22 as stated: for the greeting question on a thread with an empty
\* transcript the final answer is the greeting of the canned-response
\* table and the summarization collaborator is not called, whatever the
\* classifier returns.
C22_GreetingWhateverClassifier ==
    \A t \in Threads :
        GreetingReturned(t) =>
            /\ ret[t].value = CommonResponse(Greeting)
            /\ "summarizer" \notin Called(t)

\* C22 amended: for the greeting question on a thread with an empty
\* transcript the final answer is the greeting of the canned-response
\* table and the summarization collaborator is not called, whenever the
\* intent resolves to simple_answer (the classifier returns it, or fails).
C22_GreetingWhenSimpleAnswer ==
    \A t \in Threads :
        GreetingReturned(t) /\ st[t].intent = <<"simple_answer">> =>
            /\ ret[t] = [kind |-> "str", value |-> CommonResponse(Greeting)]
            /\ st[t].final_answer = CommonResponse(Greeting)
            /\ "summarizer" \notin Called(t)
            /\ visited[t] = <<"intent", "simple_answer">>

\* the greeting on an empty transcript, classified as simple_answer by the
\* classifier's own text, has been answered
C22_Witness ==
    \E t \in Threads :
        /\ GreetingReturned(t)
        /\ Classified(t)
        /\ st[t].intent = <<"simple_answer">>
        /\ Len(transcript[t]) = 2

\* C23: after an invocation that carries a user_id has returned, a users
\* row of that user exists and its last_active is the time of the
\* invocation, whatever the transcript length and whether or not memory
\* extraction ran.
C23_InvocationUpsertsUser ==
    \A t \in Threads :
        pc[t] = "returned" /\ Truthy(st[t].user_id) =>
            \E r \in users :
                /\ r.user_id = st[t].user_id
                /\ r.last_active = now

\* a payload with rows in it: text that is neither missing nor the JSON
\* text of the empty list
NonEmptyPayload(data) == Truthy(data) /\ data # EmptyListJson

\* C24: in a sql_and_analysis invocation the SQL executor is called before
\* the analysis collaborator; the analysis collaborator is called only if
\* the SQL result carries no error and has a non-empty payload; when the
\* SQL result carries an error the analysis collaborator is never called
\* and the final answer is the formatted SQL error.
C24_SqlThenGuardedAnalysis ==
    \A t \in Threads :
        st[t] # NoState /\ st[t].intent = <<"sql_and_analysis">> =>
            LET sql_result == st[t].sql_result
            IN  /\ \A i \in 1..Len(calls[t]) :
                      calls[t][i].to = "analysis" =>
                          \E j \in 1..(i - 1) : calls[t][j].to = "sql"
                /\ "analysis" \in Called(t) =>
                      /\ ~Truthy(Get(sql_result, "error"))
                      /\ NonEmptyPayload(Get(sql_result, "data"))
                /\ Truthy(Get(sql_result, "error")) =>
                      /\ "analysis" \notin Called(t)
                      /\ pc[t] = "returned" =>
                            ret[t].value =
                                Fmt("sorry, an error occurred: ",
                                    Fmt("SQL query failed: ",
                                        sql_result.error))

\* the analysis of the sql_and_analysis invocation on thread t has failed
BothAnalysisFailed(t) ==
    /\ st[t] # NoState
    /\ st[t].intent = <<"sql_and_analysis">>
    /\ "analysis" \in Called(t)
    /\ Truthy(Get(st[t].analysis_result, "error"))

\* C25: in a sql_and_analysis invocation whose SQL query succeeded and
\* whose analysis then failed, the failure is recorded in the error field,
\* and the state's sql_result and the thread's cache entry still hold the
\* SQL result computed before.
C25_AnalysisFailureKeepsSqlResult ==
    \A t \in Threads :
        BothAnalysisFailed(t) =>
            /\ st[t].error =
                   Fmt("analysis failed: ", st[t].analysis_result.error)
            /\ TruthyDict(st[t].sql_result)
            /\ ~Truthy(st[t].sql_result.error)
            /\ Truthy(st[t].sql_result.data)
            /\ \A i \in 1..Len(calls[t]) :
                  calls[t][i].to = "analysis" =>
                      calls[t][i].arg = st[t].sql_result.data
            /\ session_data[t].has_last
            /\ session_data[t].last_sql_result = st[t].sql_result

\* an invocation whose analysis failed after a query that returned rows
\* has returned
C25_Witness ==
    \E t \in Threads :
        /\ BothAnalysisFailed(t)
        /\ st[t].sql_result.data = RowsJson
        /\ pc[t] = "returned"

\* the invocation on thread t takes its call_analysis node in this step
AnalysisStep(t) == pc[t] = "call_analysis" /\ pc'[t] # pc[t]

\* the invocation on thread t is between its SQL call and its cache write
QueryInHand(t) ==
    pc[t] \in {"call_sql:ensure", "call_sql:write",
               "call_both:ensure", "call_both:write"}

\* C26: the data the call_analysis node hands to the analysis collaborator
\* is the payload of the cache entry of the invocation's own thread, which
\* is the result of the most recent SQL query executed on that thread (a
\* query's result is written to the entry of its own thread before the
\* invocation goes on, and nothing else changes the entry); an invocation
\* that reaches call_analysis has computed no SQL result of its own, and
\* where there is no data to hand over the collaborator is not called.
C26_AnalysisDataFromOwnThread ==
    [][\A t \in Threads :
          /\ pc[t] = "call_analysis" => st[t].sql_result = NoneDict
          /\ AnalysisStep(t) =>
                IF session_data[t].has_last
                   /\ Truthy(session_data[t].last_sql_result.data)
                THEN /\ Len(calls'[t]) = Len(calls[t]) + 1
                     /\ LastCall(calls'[t]) =
                           [to |-> "analysis",
                            arg |-> session_data[t].last_sql_result.data]
                ELSE calls'[t] = calls[t]
          /\ QueryInHand(t) => st'[t].sql_result = st[t].sql_result
          /\ IF WritesCache(t)
             THEN /\ session_data'[t].has_last
                  /\ session_data'[t].last_sql_result = st[t].sql_result
             ELSE Payload(session_data'[t]) = Payload(session_data[t])
      ]_vars

\* on its second turn a thread has had the payload of its own entry analysed
\* while the other thread's entry holds a different payload
C26_Witness ==
    \E t \in Threads, o \in Threads :
        /\ t # o
        /\ pc[t] = "returned"
        /\ st[t].intent = <<"analysis_only">>
        /\ Len(transcript[t]) >= 3
        /\ "analysis" \in Called(t)
        /\ session_data[o].has_last
        /\ Truthy(session_data[o].last_sql_result.data)
        /\ \E i \in 1..Len(calls[t]) :
              /\ calls[t][i].to = "analysis"
              /\ calls[t][i].arg = session_data[t].last_sql_result.data
              /\ calls[t][i].arg # session_data[o].last_sql_result.data

\* an error is set in a workflow state: the error field, or an error inside
\* the SQL result or the analysis result
ErrorSet(state) ==
    \/ Truthy(state.error)
    \/ Truthy(Get(state.sql_result, "error"))
    \/ Truthy(Get(state.analysis_result, "error"))

\* the error string of a state with an error set: built from the error
\* field if that is set, else from the SQL result's error, else from the
\* analysis result's
ErrorAnswer(state) ==
    IF Truthy(state.error)
    THEN Fmt("sorry, an error occurred: ", state.error)
    ELSE IF Truthy(Get(state.sql_result, "error"))
    THEN Fmt("query error: ", state.sql_result.error)
    ELSE Fmt("analysis error: ", state.analysis_result.error)

\* the invocation on thread t takes its summarize node in this step
SummarizeStep(t) == pc[t] = "summarize" /\ pc'[t] # pc[t]

\* C27: when summarize is entered with an error set, the final answer is
\* the error string built from that error (a function of the state alone),
\* the summarization collaborator is not called and the invocation ends;
\* when no error is set the summarization collaborator is called.
C27_ErrorSkipsSummarizer ==
    [][\A t \in Threads :
          SummarizeStep(t) =>
              /\ pc'[t] = "graph_end"
              /\ IF ErrorSet(st[t])
                 THEN /\ calls'[t] = calls[t]
                      /\ transcript'[t] = transcript[t]
                      /\ st'[t].final_answer = ErrorAnswer(st[t])
                 ELSE /\ Len(calls'[t]) = Len(calls[t]) + 1
                      /\ LastCall(calls'[t]).to = "summarizer"
      ]_vars

\* an invocation whose SQL result carried an error, with the error field
\* empty, has returned the error string without a summarizer call
C27_Witness ==
    \E t \in Threads :
        /\ pc[t] = "returned"
        /\ st[t].error = None
        /\ Truthy(Get(st[t].sql_result, "error"))
        /\ ret[t].value = Fmt("query error: ", st[t].sql_result.error)
        /\ "summarizer" \notin Called(t)

\* how many times the invocation on thread t has called collaborator c
CallCount(t, c) ==
    Cardinality({i \in 1..Len(calls[t]) : calls[t][i].to = c})

\* how many times the invocation on thread t has entered node n
EnterCount(t, n) ==
    Cardinality({i \in 1..Len(visited[t]) : visited[t][i] = n})

\* C28: within one invocation each collaborator is called at most once
\* (classification, SQL execution, analysis, answer summarization), and no
\* node is entered a second time to try a failed call again.
C28_OneAttemptPerCollaborator ==
    \A t \in Threads :
        /\ \A c \in {"classifier", "sql", "analysis", "summarizer"} :
              CallCount(t, c) <= 1
        /\ \A i \in 1..Len(visited[t]) : EnterCount(t, visited[t][i]) = 1

\* a sql_and_analysis invocation whose SQL executor failed has returned
\* after one classifier call and one executor call
C28_Witness ==
    \E t \in Threads :
        /\ pc[t] = "returned"
        /\ st[t].intent = <<"sql_and_analysis">>
        /\ Truthy(Get(st[t].sql_result, "error"))
        /\ CallCount(t, "classifier") = 1
        /\ CallCount(t, "sql") = 1
        /\ Called(t) = {"classifier", "sql"}

\* the workflow fields of a state are all empty
FreshFields(state) ==
    /\ state.intent = None
    /\ state.sql_result = NoneDict
    /\ state.analysis_result = NoneDict
    /\ state.final_answer = None
    /\ state.error = None
    /\ state.intent_response = None

\* C29: at the start of the intent node of every invocation, intent,
\* sql_result, analysis_result, final_answer and error are all empty,
\* whatever the thread's checkpoint held from its last invocation; the
\* transcript and the cache are what carries over.
C29_StateFreshPerInvocation ==
    \A t \in Threads :
        /\ pc[t] = "intent" =>
              /\ FreshFields(st[t])
              /\ Len(transcript[t]) >= 1
              /\ transcript[t][Len(transcript[t])] =
                    [HumanMessage(st[t].user_question) EXCEPT
                        !.id = Len(transcript[t])]
        /\ pc[t] = "idle" /\ st[t] # NoState =>
              /\ Len(transcript[t]) >= 1
              /\ Truthy(Get(st[t].sql_result, "data")) =>
                    session_data[t].has_last

\* an invocation is at the start of its intent node on a thread whose last
\* invocation ended with a SQL error in its state and in the cache
C29_Witness ==
    \E t \in Threads :
        /\ pc[t] = "intent"
        /\ FreshFields(st[t])
        /\ Len(transcript[t]) >= 2
        /\ session_data[t].has_last
        /\ Truthy(session_data[t].last_sql_result.error)

\* the canned keys in the order greeting, thanks, farewell, help-request
KeyOrder == <<"nihao", "xiexie", "zaijian", "bangzhu">>

\* positions in KeyOrder of the keys that occur in a question
KeysIn(question) ==
    {i \in 1..Len(KeyOrder) : Contains(question, <<KeyOrder[i]>>)}

\* the response the table gives a question
TableAnswer(question) ==
    IF KeysIn(question) = {} THEN DefaultResponse
    ELSE CommonResponse(KeyOrder[
             CHOOSE i \in KeysIn(question) : \A j \in KeysIn(question) : i <= j])

\* C30: the simple_answer node calls no collaborator, sets the final
\* answer to the response of the first key, in the order greeting, thanks,
\* farewell, help-request, that occurs in the question (the generic
\* capability description when none occurs), and appends that answer to
\* the thread's transcript as an assistant message.
C30_SimpleAnswerFromTable ==
    [][\A t \in Threads :
          pc[t] = "simple_answer" /\ pc'[t] # pc[t] =>
              LET answer == TableAnswer(st[t].user_question)
              IN  /\ calls'[t] = calls[t]
                  /\ st'[t].final_answer = answer
                  /\ Len(transcript'[t]) = Len(transcript[t]) + 1
                  /\ SubSeq(transcript'[t], 1, Len(transcript[t]))
                         = transcript[t]
                  /\ LET reply == transcript'[t][Len(transcript'[t])]
                     IN  /\ reply.role = "assistant"
                         /\ reply.content = answer
                  /\ pc'[t] = "graph_end"
      ]_vars

\* a question with the thanks key before the greeting key has been answered
\* with the greeting
C30_Witness ==
    \E t \in Threads :
        /\ pc[t] = "returned"
        /\ st[t].user_question = <<"xiexie", Greeting>>
        /\ ret[t].value = CommonResponse(Greeting)
        /\ transcript[t][Len(transcript[t])].content = CommonResponse(Greeting)

\* five times the budget is less than twice the character count: the
\* character count divided by 2.5 exceeds the budget
OverBudget(text) == 2 * CharCount(text) > 5 * short_term_max_tokens

\* C31: the summarizing collaborator of the compactor is called exactly
\* when there are more than 10 prior messages and the character count of
\* the formatted prior transcript divided by 2.5 exceeds the budget; in
\* every other case the history handed on is the formatted prior
\* transcript as it is.
C31_CompressionOnlyOverBudget ==
    \A t \in Threads :
        st[t] # NoState /\ "classifier" \in Called(t) =>
            LET prior == PriorMessages(t)
                formatted == FormattedInOrder(prior)
                compress == Len(prior) > 10 /\ OverBudget(formatted)
            IN  /\ "compressor" \in Called(t) <=> compress
                /\ ~compress => ClassifierCall(t).arg = formatted
                /\ compress => calls[t][1] =
                                   [to |-> "compressor", arg |-> formatted]

\* more than 10 prior messages within the budget were handed on as they
\* are, without a call of the summarizing collaborator
C31_Witness ==
    \E t \in Threads :
        /\ st[t] # NoState
        /\ "classifier" \in Called(t)
        /\ Len(PriorMessages(t)) > 10
        /\ ~OverBudget(FormattedInOrder(PriorMessages(t)))
        /\ ClassifierCall(t).arg = FormattedInOrder(PriorMessages(t))
        /\ "compressor" \notin Called(t)

\* the last n entries of a sequence, all of them when there are n or fewer
LastN(seq, n) ==
    [i \in 1..(IF Len(seq) > n THEN n ELSE Len(seq)) |->
        seq[i + (IF Len(seq) > n THEN Len(seq) - n ELSE 0)]]

\* what the compactor hands on when its collaborator succeeds
SummaryHistory == <<"[history summary]", Newline>> \o HistorySummary

\* C32: when the summarizing collaborator of the compactor is called, the
\* invocation goes on to the classifier call, and the history handed to
\* the classifier is the collaborator's summary or, when the collaborator
\* failed, the last 20 lines of the formatted prior transcript in their
\* order (all lines when there are 20 or fewer).
C32_CompressionFailureDegrades ==
    \A t \in Threads :
        st[t] # NoState /\ "compressor" \in Called(t) =>
            LET lines == Split(FormattedInOrder(PriorMessages(t)))
            IN  /\ "classifier" \in Called(t)
                /\ pc[t] # "raised"
                /\ \/ ClassifierCall(t).arg = SummaryHistory
                   \/ ClassifierCall(t).arg = Join(LastN(lines, 20))

\* after a failed compression of more than 20 lines the classifier got the
\* last 20 of them, and the invocation returned an answer
C32_Witness ==
    \E t \in Threads :
        /\ st[t] # NoState
        /\ "compressor" \in Called(t)
        /\ Len(PriorMessages(t)) > 20
        /\ ClassifierCall(t).arg =
               FormattedInOrder(LastN(PriorMessages(t), 20))
        /\ pc[t] = "returned"
        /\ ret[t].kind = "str"

\* the user_ids that own a preference row or a knowledge row
Owners ==
    {p.user_id : p \in prefs} \cup {k.user_id : k \in KnowledgeRows(knowledge)}

\* C33: in every reachable state of the store, every user_id that owns a
\* preference row or a knowledge row also has a users row.
C33_OwnersHaveUserRow ==
    \A user_id \in Owners : \E r \in users : r.user_id = user_id

\* the collaborator calls the invocation on thread t makes in this step
NewCalls(t) == SubSeq(calls'[t], Len(calls[t]) + 1, Len(calls'[t]))

\* the invocation on thread t carries a user_id and its thread's transcript
\* has at least 6 messages
Gate(t) == Truthy(st[t].user_id) /\ Len(transcript[t]) >= 6

\* the step writes a preference row or a knowledge row
WritesMemory == prefs' # prefs \/ knowledge' # knowledge

ExtractorReturned(t, op) ==
    pc[t] = "returned" /\ st[t] # NoState /\ st[t].op = op

\* collaborator outcomes that are no single JSON object: a failure, text
\* that does not parse, an array, a string, a number
NonObjectOutputs ==
    {Raises, NotJson, ExtractorTexts.array, ExtractorTexts.string_array, EmptyListJson,
     ExtractorTexts.string, ExtractorTexts.number, ExtractorTexts.fenced_array}

\* collaborator outcomes that are no JSON array
NonArrayOutputs ==
    {Raises, NotJson, ExtractorTexts.object, ExtractorTexts.empty_object, ExtractorTexts.string,
     ExtractorTexts.number, ExtractorTexts.fenced_object}

\* C35: extract_preferences_from_conversation always returns a mapping,
\* and the empty mapping when the collaborator fails or its output does not
\* parse or is no single JSON object.
C35_PreferencesAlwaysMapping ==
    \A t \in Threads :
        ExtractorReturned(t, "extract_preferences") =>
            /\ ret[t].kind = "dict"
            /\ st[t].output \in NonObjectOutputs => ret[t] = [kind |-> "dict", items |-> <<>>]

\* C36: extract_knowledge_from_conversation always returns a list: the
\* parsed array when the collaborator's output is one, and the empty list
\* when the collaborator fails or its output does not parse or is valid
\* JSON that is no array.
C36_KnowledgeAlwaysList ==
    \A t \in Threads :
        ExtractorReturned(t, "extract_knowledge") =>
            /\ ret[t].kind = "list"
            /\ st[t].output \in NonArrayOutputs => ret[t] = [kind |-> "list", items |-> <<>>]
            /\ st[t].n >= 4 /\ st[t].output \in {ExtractorTexts.array, ExtractorTexts.fenced_array}
                  => Len(ret[t].items) = 1

\* the knowledge extractor has returned the empty list for an output that
\* is a JSON object
C36_Witness ==
    \E t \in Threads :
        /\ ExtractorReturned(t, "extract_knowledge")
        /\ st[t].n = 6
        /\ st[t].output = ExtractorTexts.object
        /\ ret[t] = [kind |-> "list", items |-> <<>>]

\* C37: whenever extraction is triggered, the knowledge extraction is
\* attempted however the preference step ended, and the step leaves every
\* preference row saved before in place.
C37_KnowledgeStepIndependent ==
    [][\A t \in Threads :
          Returns(t) /\ Gate(t) =>
              /\ \E i \in 1..Len(NewCalls(t)) :
                    NewCalls(t)[i].to = "knowledge_extractor"
              /\ \A p \in prefs :
                    \E q \in prefs' : q.user_id = p.user_id /\ q.key = p.key
      ]_vars

\* the roles of a transcript alternate user, assistant, user, assistant
Alternates(messages) ==
    \A i \in 1..Len(messages) :
        messages[i].role = IF i % 2 = 1 THEN "user" ELSE "assistant"

\* C38: after every completed invocation the transcript of its thread ends
\* with an assistant message whose content is the answer handed to the
\* caller, and the roles of the transcript alternate user, assistant; on
\* the error paths of summarize as on the success paths.
C38_TranscriptEndsWithAnswer ==
    \A t \in Threads :
        pc[t] = "returned" =>
            /\ transcript[t] # <<>>
            /\ transcript[t][Len(transcript[t])].role = "assistant"
            /\ transcript[t][Len(transcript[t])].content = ret[t].value
            /\ Alternates(transcript[t])

----------------------------------------------------------------------------
(* The web layer: app.py. Here a thread is a worker thread of the server
   that handles one request at a time. *)

\* requests the server handles
MaxRequests == 4

\* query(), lines 80-91: the request is read, user_id defaulting to guest;
\* a blank question is answered with 400
WebQuery(t) ==
    /\ pc[t] = "idle"
    /\ turns < MaxRequests
    /\ turns' = turns + 1
    /\ \E user_id \in {"u1", "guest"}, question \in Questions \cup {<<>>} :
          IF question = <<>>
          THEN /\ ret' = [ret EXCEPT ![t] = [kind |-> "response",
                                             status |-> 400]]
               /\ UNCHANGED <<pc, st>>
          ELSE /\ st' = [st EXCEPT ![t] = [user_id |-> user_id,
                                           question |-> question]]
               /\ pc' = [pc EXCEPT ![t] = "get_or_create_system"]
               /\ UNCHANGED ret
    /\ UNCHANGED <<user_systems, systems>>
    /\ UNCHANGED <<transcript, session_data, users, prefs, knowledge,
                   visited, calls, now>>

\* get_or_create_system, line 26: if user_id not in user_systems
CheckUserSystems(t) ==
    /\ pc[t] = "get_or_create_system"
    /\ pc' = [pc EXCEPT ![t] = IF st[t].user_id \notin DOMAIN user_systems
                               THEN "create" ELSE "return"]
    /\ UNCHANGED <<user_systems, systems>>
    /\ UNCHANGED <<st, transcript, session_data, users, prefs, knowledge,
                   ret, visited, calls, turns, now>>

\* get_or_create_system, lines 27-28: system = MultiAgentSystem();
\* system.login(user_id), which gives the new object its session_id (a
\* uuid4, a value no other login yields) and upserts the user. asked lists
\* the questions the object's query was called with, which is what its own
\* MasterAgent keeps its transcripts and session_data from
CreateSystem(t) ==
    /\ pc[t] = "create"
    /\ systems' = Append(systems, [user_id |-> st[t].user_id,
                                   session_id |-> [uuid |-> Len(systems) + 1],
                                   asked |-> <<>>])
    /\ users' = CreateOrUpdateUser(users, <<st[t].user_id>>, now, TRUE)
    /\ st' = [st EXCEPT ![t] = [user_id |-> st[t].user_id,
                                question |-> st[t].question,
                                system |-> Len(systems) + 1]]
    /\ pc' = [pc EXCEPT ![t] = "store"]
    /\ UNCHANGED <<user_systems, transcript, session_data, prefs, knowledge,
                   ret, visited, calls, turns, now>>

\* get_or_create_system, line 29: user_systems[user_id] = system
StoreSystem(t) ==
    /\ pc[t] = "store"
    /\ user_systems' = [u \in DOMAIN user_systems \cup {st[t].user_id} |->
                           IF u = st[t].user_id THEN st[t].system
                           ELSE user_systems[u]]
    /\ pc' = [pc EXCEPT ![t] = "return"]
    /\ UNCHANGED <<systems, st, transcript, session_data, users, prefs,
                   knowledge, ret, visited, calls, turns, now>>

\* get_or_create_system, line 30: return user_systems[user_id]
ReturnSystem(t) ==
    /\ pc[t] = "return"
    /\ st' = [st EXCEPT ![t] = [user_id |-> st[t].user_id,
                                question |-> st[t].question,
                                system |-> user_systems[st[t].user_id]]]
    /\ pc' = [pc EXCEPT ![t] = "query"]
    /\ UNCHANGED <<user_systems, systems>>
    /\ UNCHANGED <<transcript, session_data, users, prefs, knowledge, ret,
                   visited, calls, turns, now>>

\* query(), lines 94-101: answer = system.query(question) on the object
\* get_or_create_system returned, and the response
SystemQuery(t) ==
    /\ pc[t] = "query"
    /\ systems' = [systems EXCEPT ![st[t].system].asked =
                                      Append(@, st[t].question)]
    /\ ret' = [ret EXCEPT ![t] = [kind |-> "response", status |-> 200,
                                  system |-> st[t].system]]
    /\ pc' = [pc EXCEPT ![t] = "idle"]
    /\ UNCHANGED <<user_systems, st, transcript, session_data, users, prefs,
                   knowledge, visited, calls, turns, now>>

WebNext ==
    \/ \E t \in Threads : WebQuery(t)
    \/ \E t \in Threads : CheckUserSystems(t)
    \/ \E t \in Threads : CreateSystem(t)
    \/ \E t \in Threads : StoreSystem(t)
    \/ \E t \in Threads : ReturnSystem(t)
    \/ \E t \in Threads : SystemQuery(t)

WebSpec == Init /\ [][WebNext]_vars

\* C39: for any user_id one engine instance serves all requests, also when
\* the first requests of the user arrive concurrently: no two instances are
\* ever created for one user_id, and every instance that has served a
\* request is the one user_systems holds for its user.
C39_OneSystemPerUser ==
    /\ \A i, j \in 1..Len(systems) :
          systems[i].user_id = systems[j].user_id => i = j
    /\ \A i \in 1..Len(systems) :
          systems[i].asked # <<>> =>
              /\ systems[i].user_id \in DOMAIN user_systems
              /\ user_systems[systems[i].user_id] = i

====
